---- MODULE Spec2Model ----
(***************************************************************************)
(* Verification model of the email agent: the real-time mailbox watcher    *)
(* (email_agent/listener.py), the Intake Filter (email_agent/ai.py) and    *)
(* the Event Collector (email_agent/reporter.py).                          *)
(*                                                                         *)
(* Text is modelled as a sequence of one-character strings, so that        *)
(* lower(), strip(), upper() and the substring test `x in s` are computed  *)
(* the way Python computes them.                                           *)
(***************************************************************************)
EXTENDS Integers, Sequences, FiniteSets, TLC

\* ------------------------------------------------------------------ bounds

\* Highest UID the mail server ever assigns in a run.
MaxUid == 3

\* Number of transport faults (dropped connections, refused reconnects)
\* the environment injects in a run.
MaxFaults == 2

\* ------------------------------------------------------------------- text

UpperChars == <<"A","B","C","D","E","F","G","H","I","J","K","L","M","N","O","P","Q","R","S","T","U","V","W","X","Y","Z">>

LowerChars == <<"a","b","c","d","e","f","g","h","i","j","k","l","m","n","o","p","q","r","s","t","u","v","w","x","y","z">>

\* str.lower() on one character.
LowerChar(c) ==
    IF \E i \in 1..Len(UpperChars) : UpperChars[i] = c
    THEN LowerChars[CHOOSE i \in 1..Len(UpperChars) : UpperChars[i] = c]
    ELSE c

\* str.upper() on one character.
UpperChar(c) ==
    IF \E i \in 1..Len(LowerChars) : LowerChars[i] = c
    THEN UpperChars[CHOOSE i \in 1..Len(LowerChars) : LowerChars[i] = c]
    ELSE c

\* str.lower()
Lower(s) == [i \in 1..Len(s) |-> LowerChar(s[i])]

\* str.upper()
Upper(s) == [i \in 1..Len(s) |-> UpperChar(s[i])]

\* Python's `sub in s` on strings.
Contains(s, sub) ==
    \E i \in 0..(Len(s) - Len(sub)) : SubSeq(s, i + 1, i + Len(sub)) = sub

\* any(k in s for k in keys)
ContainsAny(s, keys) == \E k \in keys : Contains(s, k)

Whitespace == {" ", "\n", "\t", "\r"}

\* str.strip()
Strip(s) ==
    LET idx == {i \in 1..Len(s) : s[i] \notin Whitespace}
    IN  IF idx = {} THEN <<>>
        ELSE LET lo == CHOOSE i \in idx : \A j \in idx : i <= j
                 hi == CHOOSE i \in idx : \A j \in idx : i >= j
             IN  SubSeq(s, lo, hi)

\* ---------------------------------------------------------- Intake Filter

\* ai.py: WHITELIST
WHITELIST == { <<"@","g","m","a","i","l",".","c","o","m">>,
               <<"@","o","u","t","l","o","o","k",".","c","o","m">> }

NoReplyMarkers == { <<"n","o","-","r","e","p","l","y">>,
                    <<"n","o","r","e","p","l","y">>,
                    <<"d","o","-","n","o","t","-","r","e","p","l","y">> }

MarketingDomains == { <<"m","a","i","l","c","h","i","m","p">>,
                      <<"h","u","b","s","p","o","t">>,
                      <<"s","u","b","s","t","a","c","k">>,
                      <<"m","e","d","i","u","m",".","c","o","m">>,
                      <<"s","e","n","d","g","r","i","d">> }

spam_words == { <<"u","n","s","u","b","s","c","r","i","b","e">>,
                <<"o","f","f","e","r">>,
                <<"d","e","a","l">>,
                <<"d","i","s","c","o","u","n","t">>,
                <<"n","e","w","s","l","e","t","t","e","r">>,
                <<"p","r","o","m","o">>,
                <<"a","d",":">> }

sys_words == { <<"p","a","s","s","w","o","r","d"," ","r","e","s","e","t">>,
               <<"v","e","r","i","f","i","c","a","t","i","o","n"," ","c","o","d","e">>,
               <<"i","n","v","o","i","c","e">>,
               <<"r","e","c","e","i","p","t">>,
               <<"a","u","t","o","-","r","e","p","l","y">>,
               <<"o","u","t"," ","o","f"," ","o","f","f","i","c","e">> }

PersonalDomains == { <<"@","g","m","a","i","l",".","c","o","m">>,
                     <<"@","o","u","t","l","o","o","k",".","c","o","m">>,
                     <<"@","y","a","h","o","o",".","c","o","m">> }

\* The name of the rule of is_auto_or_spam that decides a message:
\* the rules are tried in the order of the source, first match wins.
FilterRule(email) ==
    LET sender  == Lower(email.from_address)
        subject == Lower(email.subject)
    IN  IF ContainsAny(sender, WHITELIST) THEN "whitelist"
        ELSE IF ContainsAny(sender, NoReplyMarkers) THEN "no_reply"
        ELSE IF ContainsAny(sender, MarketingDomains) THEN "marketing_domain"
        ELSE IF ContainsAny(subject, spam_words \cup sys_words)
             THEN IF ContainsAny(sender, PersonalDomains)
                  THEN "human_pass"
                  ELSE "spam_subject"
        ELSE "none"

\* A filter that tests the sender as written, without lower-casing it.
is_auto_or_spam_case_sensitive(email) ==
    LET sender  == email.from_address
        subject == Lower(email.subject)
    IN  IF ContainsAny(sender, WHITELIST) THEN FALSE
        ELSE IF ContainsAny(sender, NoReplyMarkers) THEN TRUE
        ELSE IF ContainsAny(sender, MarketingDomains) THEN TRUE
        ELSE IF ContainsAny(subject, spam_words \cup sys_words)
             THEN ~ContainsAny(sender, PersonalDomains)
        ELSE FALSE

\* ai.py: is_auto_or_spam. TRUE means "reject".
is_auto_or_spam(email) ==
    FilterRule(email) \in {"no_reply", "marketing_domain", "spam_subject"}

LabelHuman == <<"H","U","M","A","N">>

LabelAutomated == <<"A","U","T","O","M","A","T","E","D">>

\* ai.py: classify_email_with_llm that rejects a label it does not know
classify_email_with_llm_fail_closed(content) ==
    Upper(Strip(content)) = LabelHuman

\* ai.py: classify_email_with_llm, as a function of the text the completion
\* call returned. TRUE means "accept".
classify_email_with_llm(content) ==
    LET label == Upper(Strip(content))
    IN  IF label \notin {LabelHuman, LabelAutomated} THEN TRUE
        ELSE IF label = LabelAutomated THEN FALSE
        ELSE TRUE

\* Texts the completion call of the classifier may return.
Labels == { <<"H","U","M","A","N">>,
            <<"A","U","T","O","M","A","T","E","D">>,
            <<" ","a","u","t","o","m","a","t","e","d","\n">>,
            <<"h","u","m","a","n"," ">>,
            <<"A","U","T","O","M","A","T","E","D",".">>,
            <<>>,
            <<"M","a","y","b","e">> }

\* Messages the mail server may hand out for a fetched UID.
Mails == <<
    [from_address |-> <<"j","a","n","e",".","d","o","e","@","g","m","a","i","l",".","c","o","m">>,
     subject      |-> <<"Q","u","i","c","k"," ","s","y","n","c"," ","n","e","x","t"," ","w","e","e","k","?">>],
    [from_address |-> <<"N","o","-","R","e","p","l","y","@","S","h","o","p",".","c","o","m">>,
     subject      |-> <<"Y","o","u","r"," ","o","r","d","e","r">>],
    [from_address |-> <<"b","i","l","l","i","n","g","@","m","a","i","l","c","h","i","m","p",".","c","o","m">>,
     subject      |-> <<"R","e",":"," ","i","n","v","o","i","c","e"," ","o","v","e","r","d","u","e">>],
    [from_address |-> <<"b","o","b","@","c","o","r","p",".","c","o","m">>,
     subject      |-> <<"I","n","v","o","i","c","e"," ","a","t","t","a","c","h","e","d">>],
    [from_address |-> <<"a","m","y","@","y","a","h","o","o",".","c","o","m">>,
     subject      |-> <<"D","i","s","c","o","u","n","t"," ","o","f","f","e","r">>],
    [from_address |-> <<"b","o","b","@","c","o","r","p",".","c","o","m">>,
     subject      |-> <<"L","u","n","c","h","?">>],
    [from_address |-> <<"n","o","r","e","p","l","y","@","o","u","t","l","o","o","k",".","c","o","m">>,
     subject      |-> <<"P","a","s","s","w","o","r","d"," ","r","e","s","e","t">>],
    [from_address |-> <<"d","o","-","n","o","t","-","r","e","p","l","y","@","b","a","n","k",".","c","o","m">>,
     subject      |-> <<"L","u","n","c","h","?">>] >>

MailIds == 1..Len(Mails)

\* ------------------------------------------------------------------ state

VARIABLES
    \* mail server and network
    mailbox,            \* UIDs of the messages in the selected mailbox
    unseen,             \* those without the \Seen flag
    rfcStar,            \* the server resolves "n:*" as RFC 3501 says
    conn,               \* "up" / "down": state of the IMAP session
    faults,             \* transport faults injected so far
    \* EmailListener
    pc,                 \* position of the main thread
    running,            \* self.running
    imap,               \* self.imap: "none" or "object"
    enable_reporting,   \* self.enable_reporting
    max_uid,            \* self.max_uid, the watermark W
    processed_uids,     \* self.processed_uids
    email_uids,         \* what is left of the search result in the for loop
    cur,                \* the message _process_email_by_uid works on
    \* reporter.py
    reporter,           \* the global _reporter is set
    events,             \* EmailReporter.events, the buffer
    \* history
    startW,             \* the watermark as start() set it
    runs,               \* runs[u]: calls of _process_email_by_uid(u)
    sent,               \* sent[u]: replies sent for u
    reconnects,         \* reconnect attempts of the poll loop
    needReconnect,      \* a poll raised a transport error and no reconnect
                        \* attempt has followed yet
    closeAttempts,      \* calls of self.imap.close() made by stop()
    stopReporterCalls,  \* calls of stop_reporter() made by stop()
    last,               \* name of the last step taken
    \* one message on its way through the stages behind the Intake Filter
    caller,             \* who runs the stages: "_process_email_by_uid",
                        \* "run_once", "direct" (stages called on their
                        \* own) or "none"
    ppc,                \* the stage that runs next
    mail,               \* the message, an index into Messages
    contents,           \* per completion call made, the index of the
                        \* content it returned (0: the call raised)
    routing_decision,   \* the Router's RoutingDecision
    expert_decision,    \* the Expert's DraftDecision
    review_decision,    \* the Reviewer's ReviewDecision
    outcome,            \* how the run ended
    \* the threads of the reporter
    reporter_running,   \* EmailReporter.running
    lock,               \* EmailReporter.lock: "none" or the thread that
                        \* holds it
    mpc,                \* position of the main thread in add_event
    wpc,                \* position of the report worker
    copied,             \* the local `events` of _generate_report
    added,              \* events handed to add_event so far
    interval,           \* sleeps of 900 s the worker has finished
    flushes,            \* per call of _generate_report: what it copied,
                        \* what it returned, how the sending went
    test_result         \* what test_reporter did, and the exit status of
                        \* the test script

serverVars   == <<mailbox, unseen, rfcStar, conn, faults>>
listenerVars == <<pc, running, imap, enable_reporting, max_uid,
                  processed_uids, email_uids, cur>>
reporterVars == <<reporter, events>>
historyVars  == <<startW, runs, sent, reconnects, needReconnect,
                  closeAttempts, stopReporterCalls, last>>
vars == <<serverVars, listenerVars, reporterVars, historyVars>>
pipelineVars == <<caller, ppc, mail, contents, routing_decision,
                  expert_decision, review_decision, outcome>>
workerVars == <<reporter_running, lock, mpc, wpc, copied, added, interval,
                flushes, test_result>>
allVars == <<vars, pipelineVars, workerVars>>

Uids == 1..MaxUid

Max(S) == IF S = {} THEN 0 ELSE CHOOSE x \in S : \A y \in S : y <= x

RECURSIVE Ascending(_)
\* The elements of a set of numbers as an ascending sequence.
Ascending(S) ==
    IF S = {} THEN <<>>
    ELSE LET m == CHOOSE x \in S : \A y \in S : x <= y
         IN  <<m>> \o Ascending(S \ {m})

NoMail == [uid |-> 0, mail |-> 0, verdict |-> "none", stages |-> {},
           logged |-> <<>>]

\* Stages that come after the Intake Filter.
Downstream == {"router", "expert", "reviewer", "delivery"}

PipelinePcs == {"fetch", "filter", "classify", "route", "expert", "review",
                "deliver"}

LoopPcs == {"poll", "search", "for"} \cup PipelinePcs

\* The watcher as EmailListener.__init__ leaves it.
WatcherInit ==
    /\ \E n \in 0..(MaxUid - 1) :
          /\ mailbox = 1..n
          /\ unseen \in SUBSET (1..n)
    /\ rfcStar \in BOOLEAN
    /\ conn = "down"
    /\ faults = 0
    /\ pc = "constructed"
    /\ running = FALSE
    /\ imap = "none"
    /\ enable_reporting \in BOOLEAN
    /\ max_uid = 0
    /\ processed_uids = {}
    /\ email_uids = <<>>
    /\ cur = NoMail
    /\ reporter = FALSE
    /\ events = <<>>
    /\ startW = 0
    /\ runs = [u \in Uids |-> 0]
    /\ sent = [u \in Uids |-> 0]
    /\ reconnects = 0
    /\ needReconnect = FALSE
    /\ closeAttempts = 0
    /\ stopReporterCalls = 0
    /\ last = "init"

\* ------------------------------------------------------------ mail server

\* A new message is delivered to the mailbox: it gets the next UID and is
\* unseen.
Arrive ==
    /\ Max(mailbox) < MaxUid
    /\ UNCHANGED <<pipelineVars, workerVars>>
    /\ mailbox' = mailbox \cup {Max(mailbox) + 1}
    /\ unseen' = unseen \cup {Max(mailbox) + 1}
    /\ last' = "arrive"
    /\ UNCHANGED <<rfcStar, conn, faults, listenerVars, reporterVars,
                   startW, runs, sent, reconnects, needReconnect,
                   closeAttempts, stopReporterCalls>>

\* The server's answer to UID SEARCH "UID n:* UNSEEN". In a UID range "*" is
\* the highest UID of the mailbox and the two ends may come in either order,
\* so that n:* matches the last message even when n is above it (RFC 3501,
\* 6.4.8); a server that does not follow the rule matches UIDs >= n only.
SearchUnseenFrom(n) ==
    LET top == Max(mailbox)
        lo  == IF rfcStar /\ top < n THEN top ELSE n
    IN  Ascending({u \in unseen : u >= lo})

\* ---------------------------------------------------------------- reporter

\* reporter.py: log_email_event, as called by the pipeline for message rec.
\* The call is recorded in rec.logged; the event reaches the buffer
\* (add_event) only when the global reporter is set.
log_email_event(rec, action) ==
    /\ events' = IF reporter
                 THEN Append(events, [uid |-> rec.uid, action |-> action])
                 ELSE events
    /\ UNCHANGED reporter

Logged(rec, action) == [rec EXCEPT !.logged = Append(@, action)]

\* ---------------------------------------------------------------- listener

\* listener.py: _connect_imap, with f transport faults injected so far.
\* ok: the server accepts the connection, the login and the select.
_connect_imap(f, ok) ==
    /\ imap' = IF ok THEN "object" ELSE imap
    /\ IF ok
       THEN conn' = "up" /\ faults' = f
       ELSE f < MaxFaults /\ conn' = "down" /\ faults' = f + 1

\* listener.py: EmailListener.stop
stop ==
    /\ running' = FALSE
    /\ IF imap = "object"
       THEN closeAttempts' = closeAttempts + 1 /\ conn' = "down"
       ELSE UNCHANGED <<closeAttempts, conn>>
    /\ stopReporterCalls' = stopReporterCalls + 1
    /\ reporter' = FALSE

\* listener.py: EmailListener.start up to the call of _listen_idle.
start ==
    /\ pc = "constructed"
    /\ UNCHANGED <<pipelineVars, workerVars>>
    /\ \E ok \in BOOLEAN :
          /\ _connect_imap(faults, ok)
          /\ IF ok
             THEN /\ reporter' = enable_reporting
                  /\ running' = TRUE
                  /\ max_uid' = Max(mailbox)
                  /\ startW' = Max(mailbox)
                  /\ processed_uids' = {}
                  /\ pc' = "poll"
                  /\ last' = "start"
             ELSE /\ pc' = "returned"
                  /\ last' = "start_failed"
                  /\ UNCHANGED <<reporter, running, max_uid, startW,
                                 processed_uids>>
    /\ UNCHANGED <<mailbox, unseen, rfcStar, enable_reporting, email_uids,
                   cur, events, runs, sent, reconnects,
                   needReconnect, closeAttempts, stopReporterCalls>>

\* Whether an IMAP command issued now can raise a transport error: the session
\* is down, or the environment still has a fault to inject.
CanRaise == conn = "down" \/ faults < MaxFaults

\* Faults injected once a command has raised.
FaultsAfterRaise == IF conn = "up" THEN faults + 1 ELSE faults

\* A handler that anchors the listener again after reconnecting, as start()
\* does.
ImapErrorHandler_reanchor ==
    /\ \E ok \in BOOLEAN : _connect_imap(FaultsAfterRaise, ok)
    /\ reconnects' = reconnects + 1
    /\ needReconnect' = FALSE
    /\ max_uid' = Max(mailbox)
    /\ processed_uids' = {}
    /\ pc' = "poll"
    /\ last' = "reconnect"

\* listener.py: _listen_idle, `except imaplib.IMAP4.error`: reconnect.
ImapErrorHandler ==
    /\ \E ok \in BOOLEAN : _connect_imap(FaultsAfterRaise, ok)
    /\ reconnects' = reconnects + 1
    /\ needReconnect' = FALSE
    /\ UNCHANGED <<max_uid, processed_uids>>
    /\ pc' = "poll"
    /\ last' = "reconnect"

\* listener.py: _listen_idle, `except Exception`: the error is printed. A
\* socket error may leave the session usable or not.
OtherErrorHandler ==
    /\ conn' \in (IF conn = "up" THEN {"up", "down"} ELSE {"down"})
    /\ faults' = FaultsAfterRaise
    /\ needReconnect' = TRUE
    /\ UNCHANGED <<imap, reconnects, max_uid, processed_uids>>
    /\ pc' = "poll"
    /\ last' = "unexpected_error"

\* A command of the poll raises: imaplib.IMAP4.error (abort included) or an
\* OSError of the socket.
PollRaises ==
    /\ CanRaise
    /\ \/ ImapErrorHandler
       \/ OtherErrorHandler
    /\ UNCHANGED <<mailbox, unseen, rfcStar, running, enable_reporting,
                   email_uids, cur, reporterVars, startW, runs, sent,
                   closeAttempts, stopReporterCalls>>

\* listener.py: _listen_idle: `while self.running`, self.imap.noop()
Noop ==
    /\ pc = "poll"
    /\ UNCHANGED <<pipelineVars, workerVars>>
    /\ running
    /\ \/ /\ conn = "up"
          /\ pc' = "search"
          /\ last' = "noop"
          /\ UNCHANGED <<serverVars, running, imap, enable_reporting,
                         max_uid, processed_uids, email_uids, cur,
                         reporterVars, startW, runs, sent, reconnects, needReconnect, closeAttempts,
                         stopReporterCalls>>
       \/ PollRaises

\* listener.py: _listen_idle: the UID SEARCH, and the sleep when the status is
\* not OK.
Search ==
    /\ pc = "search"
    /\ UNCHANGED <<pipelineVars, workerVars>>
    /\ \/ /\ conn = "up"
          /\ \/ /\ email_uids' = SearchUnseenFrom(max_uid + 1)
                /\ pc' = "for"
                /\ last' = "search"
             \/ /\ email_uids' = <<>>
                /\ pc' = "poll"
                /\ last' = "search_not_ok"
          /\ UNCHANGED <<serverVars, running, imap, enable_reporting,
                         max_uid, processed_uids, cur, reporterVars, startW,
                         runs, sent, reconnects, needReconnect,
                         closeAttempts, stopReporterCalls>>
       \/ PollRaises

\* The loop body without the test of processed_uids.
ForUid_no_dedup ==
    /\ pc = "for"
    /\ UNCHANGED <<pipelineVars, workerVars>>
    /\ IF email_uids = <<>>
       THEN /\ pc' = "poll"
            /\ last' = "sleep"
            /\ UNCHANGED <<processed_uids, cur, runs>>
       ELSE LET uid == Head(email_uids)
            IN  /\ processed_uids' = processed_uids \cup {uid}
                /\ runs' = [runs EXCEPT ![uid] = @ + 1]
                /\ cur' = [NoMail EXCEPT !.uid = uid]
                /\ pc' = "fetch"
                /\ last' = "detected"
    /\ UNCHANGED <<serverVars, running, imap, enable_reporting, max_uid,
                   email_uids, reporterVars, startW, sent, reconnects, needReconnect, closeAttempts,
                   stopReporterCalls>>

\* listener.py: _listen_idle: `for uid in email_uids`: skip a UID that is in
\* processed_uids, else add it and call _process_email_by_uid; after the last
\* one, sleep.
ForUid ==
    /\ pc = "for"
    /\ UNCHANGED <<pipelineVars, workerVars>>
    /\ IF email_uids = <<>>
       THEN /\ pc' = "poll"
            /\ last' = "sleep"
            /\ UNCHANGED <<processed_uids, email_uids, cur, runs>>
       ELSE LET uid == Head(email_uids)
            IN  IF uid \in processed_uids
                THEN /\ email_uids' = Tail(email_uids)
                     /\ pc' = "for"
                     /\ last' = "already_processed"
                     /\ UNCHANGED <<processed_uids, cur, runs>>
                ELSE /\ processed_uids' = processed_uids \cup {uid}
                     /\ runs' = [runs EXCEPT ![uid] = @ + 1]
                     /\ cur' = [NoMail EXCEPT !.uid = uid]
                     /\ pc' = "fetch"
                     /\ last' = "detected"
                     /\ UNCHANGED email_uids
    /\ UNCHANGED <<serverVars, running, imap, enable_reporting, max_uid,
                   reporterVars, startW, sent, reconnects,
                   needReconnect, closeAttempts, stopReporterCalls>>

\* --------------------------------------------------- _process_email_by_uid

\* A loop body that leaves max_uid alone after _process_email_by_uid.
Finish_no_advance(rec) ==
    /\ cur' = rec
    /\ UNCHANGED max_uid
    /\ email_uids' = Tail(email_uids)
    /\ pc' = "for"

\* _process_email_by_uid returns with rec as the final record of the message,
\* and the loop body goes on: max_uid is advanced to the UID if it is larger
\* and the for loop takes the next UID.
Finish(rec) ==
    /\ cur' = rec
    /\ max_uid' = IF rec.uid > max_uid THEN rec.uid ELSE max_uid
    /\ email_uids' = Tail(email_uids)
    /\ pc' = "for"

\* A pipeline whose exception is not caught at the message boundary: it
\* reaches `except Exception` of the poll loop, which drops the rest of the
\* search result.
ExceptClause_propagates(rec) ==
    /\ cur' = [rec EXCEPT !.verdict = "exception"]
    /\ email_uids' = <<>>
    /\ pc' = "poll"
    /\ UNCHANGED max_uid

\* An `except Exception` after which the loop body skips the advance of
\* max_uid.
ExceptClause_no_advance(rec) ==
    /\ cur' = [rec EXCEPT !.verdict = "exception"]
    /\ UNCHANGED max_uid
    /\ email_uids' = Tail(email_uids)
    /\ pc' = "for"

\* listener.py: _process_email_by_uid, `except Exception`: the exception is
\* printed and the function returns False.
ExceptClause(rec) == Finish([rec EXCEPT !.verdict = "exception"])

Invoked(rec, stage) == [rec EXCEPT !.stages = @ \cup {stage}]

\* listener.py: _process_email_by_uid: UID FETCH and the parsing of the
\* message.
Fetch ==
    /\ pc = "fetch"
    /\ UNCHANGED <<pipelineVars, workerVars>>
    /\ \/ /\ conn = "up"
          /\ \E m \in MailIds : cur' = [cur EXCEPT !.mail = m]
          /\ pc' = "filter"
          /\ last' = "fetched"
          /\ UNCHANGED <<conn, faults, max_uid, email_uids>>
       \/ /\ conn = "up"
          /\ Finish([cur EXCEPT !.verdict = "fetch_failed"])
          /\ last' = "fetch_not_ok"
          /\ UNCHANGED <<conn, faults>>
       \/ /\ conn = "up"
          /\ ExceptClause(cur)
          /\ last' = "parse_raised"
          /\ UNCHANGED <<conn, faults>>
       \/ /\ CanRaise
          /\ conn' = "down"
          /\ faults' = FaultsAfterRaise
          /\ ExceptClause(cur)
          /\ last' = "fetch_raised"
    /\ UNCHANGED <<mailbox, unseen, rfcStar, running, imap, enable_reporting,
                   processed_uids, reporterVars, startW, runs, sent,
                   reconnects, needReconnect, closeAttempts,
                   stopReporterCalls>>

\* A Stage 1 whose reject branch logs the event but does not return: the
\* message goes on to the Router.
IntakeFilter_no_return ==
    /\ pc = "filter"
    /\ UNCHANGED <<pipelineVars, workerVars>>
    /\ LET rec == Invoked(cur, "filter")
       IN  IF is_auto_or_spam(Mails[cur.mail])
           THEN /\ log_email_event(rec, "skipped_spam")
                /\ cur' = Logged([rec EXCEPT !.verdict = "skipped_spam"],
                                 "skipped_spam")
                /\ pc' = "route"
                /\ last' = "skipped_spam"
                /\ UNCHANGED <<max_uid, email_uids>>
           ELSE /\ cur' = rec
                /\ pc' = "classify"
                /\ last' = "filter_passed"
                /\ UNCHANGED <<reporterVars, max_uid, email_uids>>
    /\ UNCHANGED <<serverVars, running, imap, enable_reporting,
                   processed_uids, startW, runs, sent, reconnects,
                   needReconnect, closeAttempts, stopReporterCalls>>

\* listener.py: _process_email_by_uid: Stage 1 of the Intake Filter.
IntakeFilter ==
    /\ pc = "filter"
    /\ UNCHANGED <<pipelineVars, workerVars>>
    /\ LET rec == Invoked(cur, "filter")
       IN  IF is_auto_or_spam(Mails[cur.mail])
           THEN /\ log_email_event(rec, "skipped_spam")
                /\ Finish(Logged([rec EXCEPT !.verdict = "skipped_spam"],
                                 "skipped_spam"))
                /\ last' = "skipped_spam"
           ELSE /\ cur' = rec
                /\ pc' = "classify"
                /\ last' = "filter_passed"
                /\ UNCHANGED <<reporterVars, max_uid, email_uids>>
    /\ UNCHANGED <<serverVars, running, imap, enable_reporting,
                   processed_uids, startW, runs, sent, reconnects,
                   needReconnect, closeAttempts, stopReporterCalls>>

\* listener.py: _process_email_by_uid: Stage 2 of the Intake Filter, the
\* completion-backed classifier.
Classify ==
    /\ pc = "classify"
    /\ UNCHANGED <<pipelineVars, workerVars>>
    /\ LET rec == Invoked(cur, "classifier")
       IN  \/ /\ ExceptClause(rec)
              /\ last' = "classifier_raised"
              /\ UNCHANGED reporterVars
           \/ \E content \in Labels :
                 IF classify_email_with_llm(content)
                 THEN /\ cur' = rec
                      /\ pc' = "route"
                      /\ last' = "classifier_passed"
                      /\ UNCHANGED <<reporterVars, max_uid,
                                     email_uids>>
                 ELSE /\ log_email_event(rec, "skipped_auto")
                      /\ Finish(Logged([rec EXCEPT !.verdict = "skipped_auto"],
                                       "skipped_auto"))
                      /\ last' = "skipped_auto"
    /\ UNCHANGED <<serverVars, running, imap, enable_reporting,
                   processed_uids, startW, runs, sent, reconnects,
                   needReconnect, closeAttempts, stopReporterCalls>>

\* A stage that makes one completion call: the call raises, or the stage
\* hands its result to the next one.
CompletionStage(at, stage, next) ==
    /\ pc = at
    /\ UNCHANGED <<pipelineVars, workerVars>>
    /\ LET rec == Invoked(cur, stage)
       IN  \/ /\ ExceptClause(rec)
              /\ last' = "stage_raised"
           \/ /\ cur' = rec
              /\ pc' = next
              /\ last' = stage
              /\ UNCHANGED <<max_uid, email_uids>>
    /\ UNCHANGED <<serverVars, running, imap, enable_reporting,
                   processed_uids, reporterVars, startW, runs, sent,
                   reconnects, needReconnect, closeAttempts,
                   stopReporterCalls>>

\* listener.py: _process_email_by_uid: RouterAgent.classify_and_route
Route == CompletionStage("route", "router", "expert")

\* listener.py: _process_email_by_uid: the expert's draft_response
Expert == CompletionStage("expert", "expert", "review")

\* listener.py: _process_email_by_uid: review_draft
Review == CompletionStage("review", "reviewer", "deliver")

\* listener.py: _process_email_by_uid: connect_smtp, smtp.send, return True.
\* No event is logged on this path.
Deliver ==
    /\ pc = "deliver"
    /\ UNCHANGED <<pipelineVars, workerVars>>
    /\ LET rec == Invoked(cur, "delivery")
       IN  \/ /\ ExceptClause(rec)
              /\ last' = "delivery_raised"
              /\ UNCHANGED sent
           \/ /\ sent' = [sent EXCEPT ![rec.uid] = @ + 1]
              /\ Finish([rec EXCEPT !.verdict = "sent"])
              /\ last' = "sent"
    /\ UNCHANGED <<serverVars, running, imap, enable_reporting,
                   processed_uids, reporterVars, startW, runs, reconnects,
                   needReconnect, closeAttempts, stopReporterCalls>>

\* --------------------------------------------------------------- shutdown

\* listener.py: start.signal_handler, run by the main thread on SIGINT or
\* SIGTERM wherever it is in the loop: stop(), then sys.exit(0) raises
\* SystemExit, which no `except Exception` catches.
signal_handler ==
    /\ pc \in LoopPcs
    /\ UNCHANGED <<pipelineVars, workerVars>>
    /\ stop
    /\ pc' = "unwinding"
    /\ last' = "signal"
    /\ UNCHANGED <<mailbox, unseen, rfcStar, faults, imap, enable_reporting,
                   max_uid, processed_uids, email_uids, cur, events, startW, runs, sent, reconnects, needReconnect>>

\* listener.py: start: `finally: self.stop()`, reached when _listen_idle is
\* left.
start_finally ==
    /\ pc = "unwinding"
    /\ UNCHANGED <<pipelineVars, workerVars>>
    /\ stop
    /\ pc' = "exited"
    /\ last' = "finally"
    /\ UNCHANGED <<mailbox, unseen, rfcStar, faults, imap, enable_reporting,
                   max_uid, processed_uids, email_uids, cur, events, startW, runs, sent, reconnects, needReconnect>>

\* ------------------------------------------------------------ Python values

\* A Python value carries its type. Text is a sequence of tokens: a brace,
\* one member of a JSON object ("key": value, with its comma), or a piece of
\* any other text. A number is kept in tenths, so 0.5 is Float(5).
None == [t |-> "None"]

Bool(b) == [t |-> "bool", b |-> b]

Float(n) == [t |-> "float", tenths |-> n]

PyInt(n) == [t |-> "int", n |-> n]

Text(toks) == [t |-> "str", toks |-> toks]

List(q) == [t |-> "list", items |-> q]

Dict(d) == [t |-> "dict", d |-> d]

LBrace == [tok |-> "{"]

RBrace == [tok |-> "}"]

Word(s) == [tok |-> "text", s |-> s]

Member(k, v) == [tok |-> "member", key |-> k, value |-> v]

\* A string literal.
Str(s) == Text(IF s = "" THEN <<>> ELSE <<Word(s)>>)

\* The characters of a text that is one piece, "" for any other text.
Chars(v) == IF Len(v.toks) = 1 /\ v.toks[1].tok = "text" THEN v.toks[1].s
            ELSE ""

\* a + b on str
Concat(a, b) == Text(a.toks \o b.toks)

\* bool(v), the truth value `if v`, `not v` and `v or w` test
Truthy(v) ==
    CASE v.t = "None"  -> FALSE
      [] v.t = "bool"  -> v.b
      [] v.t = "float" -> v.tenths # 0
      [] v.t = "int"   -> v.n # 0
      [] v.t = "str"   -> v.toks # <<>>
      [] v.t = "list"  -> v.items # <<>>
      [] v.t = "dict"  -> DOMAIN v.d # {}
      [] OTHER         -> TRUE

\* a or b
Or(a, b) == IF Truthy(a) THEN a ELSE b

\* data.get(key, default) on the dict data
Get(data, key, default) ==
    IF key \in DOMAIN data.d THEN data.d[key] ELSE default

\* What a call does: it returns a value or raises an exception.
Return(v) == [raised |-> "", value |-> v]

Raise(e) == [raised |-> e, value |-> None]

\* Texts float() reads as a number, with the number in tenths.
FloatLiterals == [s \in {"0.9"} |-> 9]

\* float(v)
float(v) ==
    CASE v.t = "float" -> Return(v)
      [] v.t = "int"   -> Return(Float(10 * v.n))
      [] v.t = "bool"  -> Return(Float(IF v.b THEN 10 ELSE 0))
      [] v.t = "str"   -> IF Chars(v) \in DOMAIN FloatLiterals
                          THEN Return(Float(FloatLiterals[Chars(v)]))
                          ELSE Raise("ValueError")
      [] OTHER         -> Raise("TypeError")

\* int(v)
int(v) ==
    CASE v.t = "int"   -> Return(v)
      [] v.t = "float" -> Return(PyInt(v.tenths \div 10))
      [] v.t = "bool"  -> Return(PyInt(IF v.b THEN 1 ELSE 0))
      [] v.t = "str"   -> Raise("ValueError")
      [] OTHER         -> Raise("TypeError")

Min(S) == CHOOSE x \in S : \A y \in S : x <= y

\* re.search(r'\{[\s\S]*\}', text).group(): from the first opening brace that
\* has a closing brace after it to the last closing brace; <<>> stands for
\* "no match".
re_search(toks) ==
    LET opens  == {i \in 1..Len(toks) : toks[i] = LBrace}
        closes == {i \in 1..Len(toks) : toks[i] = RBrace}
    IN  IF \E i \in opens : \E j \in closes : i < j
        THEN SubSeq(toks, Min(opens), Max(closes))
        ELSE <<>>

\* json.loads(text) of a str: an object is an opening brace, members and a
\* closing brace, and of two members with one key the last one counts. Any
\* other text raises JSONDecodeError.
json_loads(toks) ==
    LET inner == 2..(Len(toks) - 1)
    IN  IF /\ Len(toks) >= 2
           /\ toks[1] = LBrace
           /\ toks[Len(toks)] = RBrace
           /\ \A i \in inner : toks[i].tok = "member"
        THEN Return(Dict([k \in {toks[i].key : i \in inner} |->
                 toks[Max({i \in inner : toks[i].key = k})].value]))
        ELSE Raise("JSONDecodeError")

datetime(at, tzinfo) == [t |-> "datetime", at |-> at, tzinfo |-> tzinfo]

\* Texts that are timestamps in ISO 8601 form, with the instant and the UTC
\* offset they stand for (tzinfo "" for a naive timestamp).
IsoTimestamps ==
    [s \in {"2030-01-15T14:00", "2030-03-02T09:30+00:00"} |->
        IF s = "2030-01-15T14:00" THEN datetime("2030-01-15 14:00", "")
        ELSE datetime("2030-03-02 09:30", "+00:00")]

\* datetime.fromisoformat(v) and dateutil's isoparse(v)
isoparse(v) ==
    IF v.t # "str" THEN Raise("TypeError")
    ELSE IF Chars(v) \in DOMAIN IsoTimestamps
    THEN Return(IsoTimestamps[Chars(v)])
    ELSE Raise("ValueError")

\* Names the time zone database knows.
TimeZones == {"UTC", "Europe/Paris"}

\* ZoneInfo(name)
ZoneInfo(name) ==
    IF name.t = "str" /\ Chars(name) \in TimeZones THEN Return(Chars(name))
    ELSE Raise("ZoneInfoNotFoundError")

\* Messages that reached the stages behind the Intake Filter, with the
\* instants their text names.
Messages == <<
    [subject |-> "Lunch on Friday?", from_address |-> "jane.doe@gmail.com",
     plain_text_times |-> {"2030-01-15 14:00"}],
    [subject |-> "Quote request", from_address |-> "bob@corp.com",
     plain_text_times |-> {}] >>

\* ------------------------------------------------------------------- Router

RoutingDecision(agent_type, confidence, reasoning, requires_information) ==
    [agent_type |-> agent_type, confidence |-> confidence,
     reasoning |-> reasoning, requires_information |-> requires_information]

\* router.py: the decision of both fallback returns
RouterFallback(reasoning) ==
    RoutingDecision(Str("general"), Float(5), Str(reasoning), Bool(FALSE))

\* router.py: _parse_response without its except clause
RouterAgent_parse_response_no_except(response_text) ==
    IF response_text.t # "str" THEN Raise("TypeError")
    ELSE LET json_match == re_search(response_text.toks)
             loaded == json_loads(json_match)
             confidence == float(Get(loaded.value, "confidence", Float(5)))
         IN  IF json_match = <<>>
             THEN Return(RouterFallback("Could not parse response"))
             ELSE IF loaded.raised # "" THEN Raise(loaded.raised)
             ELSE IF confidence.raised # "" THEN Raise(confidence.raised)
             ELSE Return(RoutingDecision(
                      Get(loaded.value, "agent_type", Str("general")),
                      confidence.value,
                      Get(loaded.value, "reasoning", Str("")),
                      Bool(Truthy(Get(loaded.value, "requires_information",
                                      Bool(FALSE))))))

\* router.py: RouterAgent._parse_response. re.search runs outside the try;
\* the except clause catches JSONDecodeError and ValueError only.
RouterAgent_parse_response(response_text) ==
    IF response_text.t # "str" THEN Raise("TypeError")
    ELSE LET json_match == re_search(response_text.toks)
             loaded == json_loads(json_match)
             confidence == float(Get(loaded.value, "confidence", Float(5)))
         IN  IF json_match = <<>>
             THEN Return(RouterFallback("Could not parse response"))
             ELSE IF loaded.raised = "JSONDecodeError"
             THEN Return(RouterFallback("Parse error"))
             ELSE IF confidence.raised = "ValueError"
             THEN Return(RouterFallback("Parse error"))
             ELSE IF confidence.raised # "" THEN Raise(confidence.raised)
             ELSE Return(RoutingDecision(
                      Get(loaded.value, "agent_type", Str("general")),
                      confidence.value,
                      Get(loaded.value, "reasoning", Str("")),
                      Bool(Truthy(Get(loaded.value, "requires_information",
                                      Bool(FALSE))))))

\* Contents the completion call of the Router may return.
RouterContents == <<
    Text(<<LBrace, Member("agent_type", Str("scheduling")),
           Member("confidence", Float(9)),
           Member("reasoning", Str("asks for a meeting")), RBrace>>),
    Text(<<Word("Here is the classification:"), LBrace,
           Member("agent_type", Str("business")),
           Member("confidence", Float(8)),
           Member("requires_information", Bool(TRUE)), RBrace,
           Word("Hope this helps.")>>),
    Text(<<LBrace, Member("agent_type", Str("information")),
           Member("confidence", PyInt(1)), RBrace>>),
    Text(<<LBrace, Member("agent_type", Str("general")),
           Member("confidence", Str("0.9")), RBrace>>),
    Str("This looks like a scheduling email."),
    Str(""),
    None,
    Text(<<LBrace, Word("agent_type: business, confidence: 0.9"), RBrace>>),
    Text(<<LBrace, Member("agent_type", Str("scheduling")), RBrace,
           Word("or"), LBrace, Member("agent_type", Str("business")),
           RBrace>>),
    Text(<<RBrace, Word("scheduling"), LBrace>>),
    Text(<<LBrace, RBrace>>),
    Text(<<LBrace, Member("agent_type", Str("urgent")),
           Member("confidence", Float(9)), RBrace>>),
    Text(<<LBrace, Member("agent_type", Str("business")),
           Member("confidence", None), RBrace>>),
    Text(<<LBrace, Member("agent_type", Str("business")),
           Member("confidence", Str("high")), RBrace>>),
    Text(<<LBrace, Member("agent_type", None),
           Member("confidence", Float(7)), RBrace>>) >>

\* ------------------------------------------------------------------ Experts

MeetingDetails(title, start_datetime, duration_minutes, timezone, location, attendees, description) ==
    [t |-> "MeetingDetails", title |-> title,
     start_datetime |-> start_datetime,
     duration_minutes |-> duration_minutes, timezone |-> timezone,
     location |-> location, attendees |-> attendees,
     description |-> description]

DraftDecision(reply_subject, reply_body_text, reply_body_html, needs_meeting, meeting) ==
    [reply_subject |-> reply_subject, reply_body_text |-> reply_body_text,
     reply_body_html |-> reply_body_html, needs_meeting |-> needs_meeting,
     meeting |-> meeting]

\* f"Re: {email.subject}"
Re(email) == Concat(Str("Re: "), Str(email.subject))

\* experts.py: the DraftDecision of the fallback returns
ExpertFallback(email, body) ==
    DraftDecision(Re(email), Str(body), None, Bool(FALSE), None)

\* experts.py: SchedulingAgent._parse_response: the meeting of the response,
\* None if it asks for none. A meeting that is no object, has no start_time
\* or has one fromisoformat cannot read raises.
SchedulingMeeting(data) ==
    IF Truthy(Get(data, "needs_meeting", None))
       /\ Truthy(Get(data, "meeting", None))
    THEN LET m_data == data.d["meeting"]
             start_time == isoparse(m_data.d["start_time"])
         IN  IF m_data.t # "dict" THEN Raise("AttributeError")
             ELSE IF "start_time" \notin DOMAIN m_data.d
             THEN Raise("KeyError")
             ELSE IF start_time.raised # "" THEN Raise(start_time.raised)
             ELSE Return(MeetingDetails(
                      Get(m_data, "title", Str("Meeting")),
                      start_time.value,
                      Get(m_data, "duration_minutes", PyInt(30)),
                      Get(m_data, "timezone", Str("UTC")),
                      Get(m_data, "location", None),
                      List(<<>>),
                      Get(m_data, "description", None)))
    ELSE Return(None)

\* experts.py: SchedulingAgent._parse_response. re.search runs outside the
\* try; the except clause catches every Exception.
SchedulingAgent_parse_response(response_text, email) ==
    IF response_text.t # "str" THEN Raise("TypeError")
    ELSE LET json_match == re_search(response_text.toks)
             loaded == json_loads(json_match)
             data == loaded.value
             meeting == SchedulingMeeting(data)
         IN  IF json_match = <<>>
             THEN Return(ExpertFallback(email,
                      "Thank you for your email. Let me check my availability and get back to you with some time options."))
             ELSE IF loaded.raised # "" \/ meeting.raised # ""
             THEN Return(ExpertFallback(email,
                      "Thank you for your email regarding scheduling. Let me check my availability."))
             ELSE Return(DraftDecision(
                      Get(data, "subject", Re(email)),
                      Get(data, "body_text", Str("")),
                      Get(data, "body_html", None),
                      Bool(Truthy(Get(data, "needs_meeting", Bool(FALSE)))),
                      meeting.value))

\* experts.py: the parameters of SchedulingAgent.draft_response after self
\* and email; it has no default values.
SchedulingParameters == {"default_timezone", "default_duration_minutes"}

\* experts.py: SchedulingAgent.draft_response called with the keyword
\* arguments `keywords`, when the completion call returns `content`. A
\* keyword that is no parameter, or a parameter left without a value, is a
\* TypeError raised before the body runs.
SchedulingAgent_draft_response(keywords, content, email) ==
    IF keywords # SchedulingParameters THEN Raise("TypeError")
    ELSE SchedulingAgent_parse_response(content, email)

\* experts.py: BusinessAgent._parse_response
BusinessAgent_parse_response(response_text, email) ==
    IF response_text.t # "str" THEN Raise("TypeError")
    ELSE LET json_match == re_search(response_text.toks)
             loaded == json_loads(json_match)
             data == loaded.value
         IN  IF json_match = <<>>
             THEN Return(ExpertFallback(email,
                      "Thank you for reaching out. We appreciate your inquiry and will follow up soon."))
             ELSE IF loaded.raised # ""
             THEN Return(ExpertFallback(email,
                      "Thank you for your business inquiry. We will review and respond promptly."))
             ELSE Return(DraftDecision(
                      Get(data, "subject", Re(email)),
                      Get(data, "body_text", Str("")),
                      Get(data, "body_html", None),
                      Bool(Truthy(Get(data, "needs_meeting", Bool(FALSE)))),
                      None))

\* experts.py: InformationAgent._parse_response
InformationAgent_parse_response(response_text, email) ==
    IF response_text.t # "str" THEN Raise("TypeError")
    ELSE LET json_match == re_search(response_text.toks)
             loaded == json_loads(json_match)
             data == loaded.value
         IN  IF json_match = <<>>
             THEN Return(ExpertFallback(email,
                      "Thank you for your question. Let me research this and provide you with accurate information."))
             ELSE IF loaded.raised # ""
             THEN Return(ExpertFallback(email,
                      "Thank you for your question. I'm researching this and will provide a detailed response."))
             ELSE Return(DraftDecision(
                      Get(data, "subject", Re(email)),
                      Get(data, "body_text", Str("")),
                      Get(data, "body_html", None),
                      Bool(FALSE),
                      None))

\* experts.py: GeneralAgent.draft_response: the content of the completion
\* call is the body, as it is.
GeneralAgent_draft_response(content, email) ==
    Return(DraftDecision(Re(email), content, None, Bool(FALSE), None))

\* Contents the completion call of an Expert may return.
ExpertContents == <<
    Text(<<LBrace, Member("subject", Str("Re: Lunch")),
           Member("body_text", Str("Friday at two works for me.")),
           Member("body_html", Str("<p>Friday at two works for me.</p>")),
           Member("needs_meeting", Bool(TRUE)),
           Member("meeting", Dict([title |-> Str("Lunch"),
                                   start_time |-> Str("2030-01-15T14:00"),
                                   duration_minutes |-> PyInt(45),
                                   timezone |-> Str("Europe/Paris")])),
           RBrace>>),
    Text(<<Word("Draft:"), LBrace,
           Member("body_text", Str("Here is the quote you asked for.")),
           Member("needs_meeting", Bool(FALSE)), RBrace>>),
    Str("Sure, happy to help."),
    Str(""),
    None,
    Text(<<LBrace, Word("body_text: happy to help"), RBrace>>),
    Text(<<LBrace, Member("subject", Str("Re: your message")), RBrace>>),
    Text(<<LBrace, Member("body_text", None), RBrace>>),
    Text(<<LBrace, Member("body_text", Str("Let us meet.")),
           Member("needs_meeting", Bool(TRUE)),
           Member("meeting", Dict([title |-> Str("Sync")])), RBrace>>),
    Text(<<LBrace, Member("body_text", Str("Let us meet.")),
           Member("needs_meeting", Bool(TRUE)),
           Member("meeting", Dict([start_time |-> Str("next Tuesday")])),
           RBrace>>) >>

\* ----------------------------------------------------------------- Reviewer

ReviewDecision(approved, suggested_changes, final_subject, final_body_text, final_body_html, final_needs_meeting, final_meeting) ==
    [approved |-> approved, suggested_changes |-> suggested_changes,
     final_subject |-> final_subject, final_body_text |-> final_body_text,
     final_body_html |-> final_body_html,
     final_needs_meeting |-> final_needs_meeting,
     final_meeting |-> final_meeting]

\* list(v)
list(v) ==
    CASE v.t = "list" -> Return(v)
      [] v.t = "str"  -> Return(List([i \in 1..Len(v.toks) |->
                                         Text(<<v.toks[i]>>)]))
      [] OTHER        -> Raise("TypeError")

\* review_ai.py, ai.py: the start of the meeting object m: None if m names
\* none, else the parsed timestamp, a naive one put into the zone m names,
\* or into default_timezone if that zone is not known.
NormalizedStart(m, default_timezone) ==
    LET start_datetime == Get(m, "start_datetime", None)
        dt == isoparse(start_datetime)
        tz_name == Or(Get(m, "timezone", None), Str(default_timezone))
        zone == ZoneInfo(tz_name)
    IN  IF ~Truthy(start_datetime) THEN Return(None)
        ELSE IF dt.raised # "" THEN Raise(dt.raised)
        ELSE IF dt.value.tzinfo # "" THEN Return(dt.value)
        ELSE IF zone.raised = "" THEN Return(datetime(dt.value.at, zone.value))
        ELSE Return(datetime(dt.value.at, default_timezone))

\* review_ai.py, ai.py: the MeetingDetails made of the meeting object m of a
\* completion response.
NormalizedMeeting(m, email, default_timezone, default_duration) ==
    LET dt == NormalizedStart(m, default_timezone)
        duration == int(Or(Get(m, "duration_minutes", None),
                           PyInt(default_duration)))
        attendees == list(Or(Get(m, "attendees", None),
                             List(<<Str(email.from_address)>>)))
    IN  IF m.t # "dict" THEN Raise("AttributeError")
        ELSE IF dt.raised # "" THEN Raise(dt.raised)
        ELSE IF duration.raised # "" THEN Raise(duration.raised)
        ELSE IF attendees.raised # "" THEN Raise(attendees.raised)
        ELSE Return(MeetingDetails(
                 Or(Get(m, "title", None), Str(email.subject)),
                 dt.value,
                 duration.value,
                 Or(Get(m, "timezone", None), Str(default_timezone)),
                 Get(m, "location", None),
                 attendees.value,
                 Get(m, "description", None)))

\* review_ai.py: review_draft: final_meeting
ReviewMeeting(data, original_email) ==
    IF Truthy(Get(data, "final_needs_meeting", None))
       /\ Truthy(Get(data, "final_meeting", None))
    THEN NormalizedMeeting(data.d["final_meeting"], original_email, "UTC", 30)
    ELSE Return(None)

\* review_ai.py: review_draft with a final_meeting that falls back to the
\* meeting of the draft
review_draft_keeps_draft_meeting(original_email, draft_decision, content) ==
    LET loaded == json_loads(content.toks)
        data == loaded.value
        final_meeting == ReviewMeeting(data, original_email)
    IN  IF ~Truthy(content) THEN Raise("RuntimeError")
        ELSE IF loaded.raised # "" THEN Raise(loaded.raised)
        ELSE IF final_meeting.raised # "" THEN Raise(final_meeting.raised)
        ELSE Return(ReviewDecision(
                 Bool(Truthy(Get(data, "approved", None))),
                 Get(data, "suggested_changes", None),
                 Or(Get(data, "final_subject", None),
                    draft_decision.reply_subject),
                 Or(Get(data, "final_body_text", None),
                    draft_decision.reply_body_text),
                 Get(data, "final_body_html", None),
                 Bool(Truthy(Get(data, "final_needs_meeting", None))),
                 Or(final_meeting.value, draft_decision.meeting)))

\* review_ai.py: review_draft, from the content of its completion call on.
\* Nothing in it catches an exception.
review_draft(original_email, draft_decision, content) ==
    LET loaded == json_loads(content.toks)
        data == loaded.value
        final_meeting == ReviewMeeting(data, original_email)
    IN  IF ~Truthy(content) THEN Raise("RuntimeError")
        ELSE IF loaded.raised # "" THEN Raise(loaded.raised)
        ELSE IF final_meeting.raised # "" THEN Raise(final_meeting.raised)
        ELSE Return(ReviewDecision(
                 Bool(Truthy(Get(data, "approved", None))),
                 Get(data, "suggested_changes", None),
                 Or(Get(data, "final_subject", None),
                    draft_decision.reply_subject),
                 Or(Get(data, "final_body_text", None),
                    draft_decision.reply_body_text),
                 Get(data, "final_body_html", None),
                 Bool(Truthy(Get(data, "final_needs_meeting", None))),
                 final_meeting.value))

\* Contents the completion call of the Reviewer may return.
ReviewerContents == <<
    Text(<<LBrace, Member("approved", Bool(TRUE)),
           Member("suggested_changes", None), RBrace>>),
    Text(<<LBrace, Member("approved", Bool(FALSE)),
           Member("suggested_changes", Str("made it more specific")),
           Member("final_subject", Str("Re: next steps")),
           Member("final_body_text", Str("Let us talk on the second.")),
           Member("final_body_html", Str("<p>Let us talk on the second.</p>")),
           Member("final_needs_meeting", Bool(TRUE)),
           Member("final_meeting",
                  Dict([title |-> Str("Next steps"),
                        start_datetime |-> Str("2030-03-02T09:30+00:00"),
                        duration_minutes |-> PyInt(60),
                        timezone |-> Str("Europe/Paris"),
                        location |-> Str("Zoom")])),
           RBrace>>),
    Text(<<LBrace, Member("approved", Bool(TRUE)),
           Member("final_needs_meeting", Bool(TRUE)),
           Member("final_meeting",
                  Dict([start_datetime |-> Str("2030-01-15T14:00"),
                        timezone |-> Str("Mars/Phobos")])),
           RBrace>>),
    Text(<<LBrace, Member("approved", Bool(TRUE)),
           Member("final_subject", Str("")),
           Member("final_body_text", None),
           Member("final_needs_meeting", Bool(FALSE)),
           Member("final_meeting",
                  Dict([start_datetime |-> Str("2030-03-02T09:30+00:00")])),
           RBrace>>),
    Text(<<LBrace, Member("final_needs_meeting", Bool(TRUE)),
           Member("final_meeting", Dict([title |-> Str("Sync")])),
           RBrace>>),
    Text(<<LBrace, Member("final_needs_meeting", Bool(TRUE)),
           Member("final_meeting",
                  Dict([start_datetime |-> Str("next Tuesday")])),
           RBrace>>),
    Str("Looks good to me."),
    Str(""),
    None >>

\* ----------------------------------------------------------------- Delivery

\* calendar.py: build_ics
build_ics(meeting) ==
    IF meeting.start_datetime = None THEN Raise("ValueError")
    ELSE Return([t |-> "ics", summary |-> meeting.title,
                 dtstart |-> meeting.start_datetime])

\* A reply whose build_ics call is not inside a try: its exception leaves
\* the function.
Reply_invite_unguarded(review, email) ==
    LET wants_invite == Truthy(review.final_needs_meeting)
                           /\ Truthy(review.final_meeting)
        ics == build_ics(review.final_meeting)
    IN  IF review.final_body_text.t # "str" THEN Raise("KeyError")
        ELSE IF wants_invite /\ ics.raised # "" THEN Raise(ics.raised)
        ELSE Return([to |-> email.from_address,
                     subject |-> review.final_subject,
                     body_text |-> review.final_body_text,
                     body_html |-> review.final_body_html,
                     invite |-> IF wants_invite THEN ics.value ELSE None])

\* listener.py, runner.py: the reply made of a ReviewDecision: set_content
\* takes a str body only, and the invite is left out when build_ics raises.
Reply(review, email) ==
    LET wants_invite == Truthy(review.final_needs_meeting)
                           /\ Truthy(review.final_meeting)
        ics == build_ics(review.final_meeting)
    IN  IF review.final_body_text.t # "str" THEN Raise("KeyError")
        ELSE Return([to |-> email.from_address,
                     subject |-> review.final_subject,
                     body_text |-> review.final_body_text,
                     body_html |-> review.final_body_html,
                     invite |-> IF wants_invite /\ ics.raised = ""
                                THEN ics.value ELSE None])

\* -------------------------------------------- the stages behind the filter

\* listener.py: _process_email_by_uid and runner.py: run_once, both of which
\* run the stages on one message.
Callers == {"_process_email_by_uid", "run_once"}

NoContents == [classifier |-> <<>>, router |-> 0, expert |-> 0,
               reviewer |-> 0, analyst |-> 0, validator |-> 0]

Running == [kind |-> "", exception |-> "", reply |-> None]

\* The keyword arguments a caller passes to SchedulingAgent.draft_response
\* after the message. A direct call passes the two the function declares.
SchedulingKeywords(c) ==
    IF c \in Callers
    THEN {"default_timezone", "default_meeting_duration_minutes"}
    ELSE SchedulingParameters

\* A stage raised e: _process_email_by_uid catches it and returns False,
\* run_once and a direct caller let it through.
StageRaises(e) ==
    /\ ppc' = "done"
    /\ outcome' = [kind |-> IF caller = "_process_email_by_uid"
                            THEN "caught" ELSE "raised",
                   exception |-> e, reply |-> None]

\* listener.py 332-341, runner.py 104-106: classify_email_with_llm
PipelineClassify ==
    /\ ppc = "classify"
    /\ \/ /\ StageRaises("APIError")
          /\ UNCHANGED contents
       \/ \E content \in Labels :
             /\ contents' = [contents EXCEPT !.classifier = <<content>>]
             /\ IF classify_email_with_llm(content)
                THEN /\ ppc' = "route"
                     /\ UNCHANGED outcome
                ELSE /\ ppc' = "done"
                     /\ outcome' = [Running EXCEPT !.kind = "skipped_auto"]
    /\ UNCHANGED <<vars, workerVars, caller, mail, routing_decision, expert_decision,
                   review_decision>>

\* router.py: RouterAgent.classify_and_route, as its callers run it
PipelineRoute ==
    /\ ppc = "route"
    /\ \/ /\ StageRaises("APIError")
          /\ UNCHANGED <<contents, routing_decision>>
       \/ \E i \in 1..Len(RouterContents) :
             LET decision == RouterAgent_parse_response(RouterContents[i])
             IN  /\ contents' = [contents EXCEPT !.router = i]
                 /\ IF decision.raised # ""
                    THEN /\ StageRaises(decision.raised)
                         /\ UNCHANGED routing_decision
                    ELSE /\ routing_decision' = decision.value
                         /\ ppc' = "expert"
                         /\ UNCHANGED outcome
    /\ UNCHANGED <<vars, workerVars, caller, mail, expert_decision, review_decision>>

\* What follows a call of an Expert's draft_response.
ExpertReturns(i, draft) ==
    /\ contents' = [contents EXCEPT !.expert = i]
    /\ IF draft.raised # ""
       THEN /\ StageRaises(draft.raised)
            /\ UNCHANGED expert_decision
       ELSE /\ expert_decision' = draft.value
            /\ ppc' = "review"
            /\ UNCHANGED outcome

\* listener.py 349-355, runner.py 123-130: SchedulingAgent.draft_response,
\* called by the pipeline with its keywords or on its own.
PipelineScheduling ==
    /\ \/ ppc = "expert" /\ routing_decision.agent_type = Str("scheduling")
       \/ ppc = "scheduling"
    /\ IF SchedulingKeywords(caller) # SchedulingParameters
       THEN /\ StageRaises("TypeError")
            /\ UNCHANGED <<contents, expert_decision>>
       ELSE \/ /\ StageRaises("APIError")
               /\ UNCHANGED <<contents, expert_decision>>
            \/ \E i \in 1..Len(ExpertContents) :
                  ExpertReturns(i, SchedulingAgent_draft_response(
                      SchedulingKeywords(caller), ExpertContents[i],
                      Messages[mail]))
    /\ UNCHANGED <<vars, workerVars, caller, mail, routing_decision, review_decision>>

\* listener.py 356-358, runner.py 132-135: BusinessAgent.draft_response
PipelineBusiness ==
    /\ ppc = "expert"
    /\ routing_decision.agent_type = Str("business")
    /\ \/ /\ StageRaises("APIError")
          /\ UNCHANGED <<contents, expert_decision>>
       \/ \E i \in 1..Len(ExpertContents) :
             ExpertReturns(i, BusinessAgent_parse_response(
                 ExpertContents[i], Messages[mail]))
    /\ UNCHANGED <<vars, workerVars, caller, mail, routing_decision, review_decision>>

\* listener.py 359-361, runner.py 137-140: InformationAgent.draft_response
PipelineInformation ==
    /\ ppc = "expert"
    /\ routing_decision.agent_type = Str("information")
    /\ \/ /\ StageRaises("APIError")
          /\ UNCHANGED <<contents, expert_decision>>
       \/ \E i \in 1..Len(ExpertContents) :
             ExpertReturns(i, InformationAgent_parse_response(
                 ExpertContents[i], Messages[mail]))
    /\ UNCHANGED <<vars, workerVars, caller, mail, routing_decision, review_decision>>

\* listener.py 362-364, runner.py 142-145: the else branch,
\* GeneralAgent.draft_response
PipelineGeneral ==
    /\ ppc = "expert"
    /\ routing_decision.agent_type \notin
          {Str("scheduling"), Str("business"), Str("information")}
    /\ \/ /\ StageRaises("APIError")
          /\ UNCHANGED <<contents, expert_decision>>
       \/ \E i \in 1..Len(ExpertContents) :
             ExpertReturns(i, GeneralAgent_draft_response(
                 ExpertContents[i], Messages[mail]))
    /\ UNCHANGED <<vars, workerVars, caller, mail, routing_decision, review_decision>>

\* listener.py 370-376, runner.py 153-159: review_draft, called by the
\* pipeline or on its own with the draft of the Scheduling expert
PipelineReview ==
    /\ ppc = "review"
    /\ \/ /\ StageRaises("APIError")
          /\ UNCHANGED <<contents, review_decision>>
       \/ \E i \in 1..Len(ReviewerContents) :
             LET review == review_draft(Messages[mail], expert_decision,
                                        ReviewerContents[i])
             IN  /\ contents' = [contents EXCEPT !.reviewer = i]
                 /\ IF review.raised # ""
                    THEN /\ StageRaises(review.raised)
                         /\ UNCHANGED review_decision
                    ELSE /\ review_decision' = review.value
                         /\ IF caller \in Callers
                            THEN /\ ppc' = "deliver"
                                 /\ UNCHANGED outcome
                            ELSE /\ ppc' = "done"
                                 /\ outcome' =
                                       [Running EXCEPT !.kind = "returned"]
    /\ UNCHANGED <<vars, workerVars, caller, mail, routing_decision, expert_decision>>

\* listener.py 384-417, runner.py 178-241: the reply is built and sent.
\* run_once turns a failed connect_smtp into a return value.
PipelineSend ==
    /\ ppc = "deliver"
    /\ ppc' = "done"
    /\ \/ outcome' = [kind |-> "caught", exception |-> "RuntimeError",
                      reply |-> None]
       \/ LET reply == Reply(review_decision, Messages[mail])
          IN  IF reply.raised # ""
              THEN outcome' = [kind |-> IF caller = "_process_email_by_uid"
                                       THEN "caught" ELSE "raised",
                               exception |-> reply.raised, reply |-> None]
              ELSE outcome' = [kind |-> "sent", exception |-> "",
                               reply |-> reply.value]
    /\ UNCHANGED <<vars, workerVars, caller, mail, contents, routing_decision,
                   expert_decision, review_decision>>

\* ------------------------------------------------------- analyze_and_draft

FactualGroundingResult(is_grounded, confidence_score, missing_facts, potential_hallucinations, validated_facts) ==
    [is_grounded |-> is_grounded, confidence_score |-> confidence_score,
     missing_facts |-> missing_facts,
     potential_hallucinations |-> potential_hallucinations,
     validated_facts |-> validated_facts]

\* ai.py: FactualGroundingValidator.validate_response_grounding, given what
\* its completion call did. The call is made outside the try, and the except
\* clause catches JSONDecodeError only.
validate_response_grounding(completion) ==
    LET content == completion.value
        loaded == json_loads(content.toks)
        result_data == loaded.value
    IN  IF completion.raised # "" THEN Raise(completion.raised)
        ELSE IF content.t # "str" THEN Raise("TypeError")
        ELSE IF loaded.raised # ""
        THEN Return(FactualGroundingResult(
                 Bool(FALSE), Float(0), List(<<Str("JSON parsing error")>>),
                 List(<<Str("Unable to validate")>>), List(<<>>)))
        ELSE Return(FactualGroundingResult(
                 Get(result_data, "is_grounded", Bool(FALSE)),
                 Get(result_data, "confidence_score", Float(0)),
                 Get(result_data, "missing_facts", List(<<>>)),
                 Get(result_data, "potential_hallucinations", List(<<>>)),
                 Get(result_data, "validated_facts", List(<<>>))))

disclaimer ==
    Str("\n\nNote: Please provide any specific details (addresses, contact information, etc.) that you'd like me to include in our response.")

html_disclaimer ==
    Str("<p><em>Note: Please provide any specific details (addresses, contact information, etc.) that you'd like me to include in our response.</em></p>")

\* data[key] = v
Put(data, key, v) ==
    Dict([k \in DOMAIN data.d \cup {key} |->
             IF k = key THEN v ELSE data.d[k]])

\* ai.py 419-441: data after the try block, for the GroundingResult
\* validation_result. Both branches print the score with two decimals, which
\* raises for a score that is no number; adding the disclaimer to a body that
\* is no str raises; the except clause swallows either and keeps what was
\* assigned before.
AfterValidation(data, validation_result) ==
    LET original_text == Get(data, "reply_body_text", Str(""))
        with_text == Put(data, "reply_body_text",
                         Concat(original_text, disclaimer))
        original_html == Get(data, "reply_body_html", None)
    IN  IF validation_result.confidence_score.t \notin {"float", "int", "bool"}
        THEN data
        ELSE IF Truthy(validation_result.is_grounded) THEN data
        ELSE IF ~Truthy(validation_result.potential_hallucinations) THEN data
        ELSE IF original_text.t # "str" THEN data
        ELSE IF ~Truthy(original_html) THEN with_text
        ELSE IF original_html.t # "str" THEN with_text
        ELSE Put(with_text, "reply_body_html",
                 Concat(original_html, html_disclaimer))

\* ai.py: analyze_and_draft: meeting
DraftMeeting(data, email) ==
    IF Truthy(Get(data, "needs_meeting", None))
       /\ Truthy(Get(data, "meeting", None))
    THEN NormalizedMeeting(data.d["meeting"], email, "UTC", 30)
    ELSE Return(None)

\* ai.py: analyze_and_draft, from the content of its completion call on;
\* `completion` is what the completion call of the Grounding Validator does.
analyze_and_draft(email, content, enable_factual_validation, completion) ==
    LET loaded == json_loads(content.toks)
        validation == validate_response_grounding(completion)
        data == IF enable_factual_validation /\ validation.raised = ""
                THEN AfterValidation(loaded.value, validation.value)
                ELSE loaded.value
        meeting == DraftMeeting(data, email)
    IN  IF ~Truthy(content) THEN Raise("RuntimeError")
        ELSE IF loaded.raised # "" THEN Raise(loaded.raised)
        ELSE IF meeting.raised # "" THEN Raise(meeting.raised)
        ELSE Return(DraftDecision(
                 Or(Get(data, "reply_subject", None), Re(email)),
                 Or(Get(data, "reply_body_text", None), Str("")),
                 Get(data, "reply_body_html", None),
                 Bool(Truthy(Get(data, "needs_meeting", None))),
                 meeting.value))

\* Contents the completion call of analyze_and_draft may return.
AnalystContents == <<
    Text(<<LBrace, Member("reply_subject", Str("Re: Quote request")),
           Member("reply_body_text", Str("Our office is at 5 Main Street.")),
           Member("reply_body_html",
                  Str("<p>Our office is at 5 Main Street.</p>")),
           Member("needs_meeting", Bool(FALSE)), Member("meeting", None),
           RBrace>>),
    Text(<<LBrace, Member("reply_body_text", Str("Happy to meet.")),
           Member("reply_body_html", None),
           Member("needs_meeting", Bool(TRUE)),
           Member("meeting",
                  Dict([start_datetime |-> Str("2030-01-15T14:00")])),
           RBrace>>),
    Text(<<LBrace, Member("reply_body_text", None),
           Member("reply_body_html", Str("<p>Thanks.</p>")), RBrace>>),
    Str("I would reply as follows."),
    Str("") >>

\* Contents the completion call of the Grounding Validator may return.
ValidatorContents == <<
    Text(<<LBrace, Member("is_grounded", Bool(TRUE)),
           Member("confidence_score", Float(9)),
           Member("potential_hallucinations", List(<<>>)), RBrace>>),
    Text(<<LBrace, Member("is_grounded", Bool(FALSE)),
           Member("confidence_score", Float(3)),
           Member("missing_facts", List(<<Str("5 Main Street")>>)),
           Member("potential_hallucinations",
                  List(<<Str("the office address")>>)), RBrace>>),
    Text(<<LBrace, Member("is_grounded", Bool(FALSE)),
           Member("confidence_score", Float(4)),
           Member("missing_facts", List(<<Str("5 Main Street")>>)),
           Member("potential_hallucinations", List(<<>>)), RBrace>>),
    Text(<<LBrace, Member("is_grounded", Bool(FALSE)),
           Member("confidence_score", None),
           Member("potential_hallucinations",
                  List(<<Str("the office address")>>)), RBrace>>),
    Text(<<LBrace, RBrace>>),
    Str("The draft looks grounded."),
    None >>

\* analyze_and_draft called on its own. contents.validator is -1 when the
\* completion call of the Grounding Validator raised and 0 when validation is
\* switched off.
DirectAnalyze ==
    /\ ppc = "analyze"
    /\ ppc' = "done"
    /\ \/ /\ outcome' = [Running EXCEPT !.kind = "raised",
                                         !.exception = "APIError"]
          /\ UNCHANGED <<contents, expert_decision>>
       \/ \E i \in 1..Len(AnalystContents),
             j \in -1..Len(ValidatorContents) :
             LET completion == IF j = -1 THEN Raise("APIError")
                               ELSE IF j = 0 THEN Return(None)
                               ELSE Return(ValidatorContents[j])
                 draft == analyze_and_draft(Messages[mail],
                              AnalystContents[i], j # 0, completion)
             IN  /\ contents' = [contents EXCEPT !.analyst = i,
                                                 !.validator = j]
                 /\ IF draft.raised # ""
                    THEN /\ outcome' = [Running EXCEPT
                                           !.kind = "raised",
                                           !.exception = draft.raised]
                         /\ UNCHANGED expert_decision
                    ELSE /\ outcome' = [Running EXCEPT !.kind = "returned"]
                         /\ expert_decision' = draft.value
    /\ UNCHANGED <<vars, workerVars, caller, mail, routing_decision, review_decision>>

\* -------------------------------------------------------- reporter threads

\* Events the main thread logs while the reporter is looked at.
MaxEvents == 3

\* Sleeps of 900 s the report worker finishes.
MaxIntervals == 2

\* reporter.py: EmailEvent.action
EventActions == {"processed", "skipped_spam", "skipped_auto", "error"}

\* event.action.replace('_', ' ').title()
ActionTitles == [processed    |-> "Processed",
                 skipped_spam |-> "Skipped Spam",
                 skipped_auto |-> "Skipped Auto",
                 error        |-> "Error"]

\* A lock that lets a thread in while another one holds it.
Acquire_no_exclusion(t) == lock' = t

\* threading.Lock: thread t enters `with self.lock:`
Acquire(t) == lock = "none" /\ lock' = t

\* len([e for e in events if e.action == action])
CountAction(evs, action) ==
    Cardinality({i \in 1..Len(evs) : evs[i].action = action})

\* The rows of the details table.
Rows(evs) ==
    [i \in 1..Len(evs) |-> ToString(evs[i].uid) \o " "
                              \o ActionTitles[evs[i].action]]

\* _generate_report after the lock block, for a non-empty list of events: the
\* statistics and one row per event. The two texts are returned as built.
ActivityReport(evs, now) ==
    LET stamps == {evs[i].uid : i \in 1..Len(evs)}
        period == "Period: " \o ToString(Min(stamps)) \o " to "
                     \o ToString(Max(stamps))
        stats  == <<"Total Emails: " \o ToString(Len(evs)),
                    "Processed: " \o ToString(CountAction(evs, "processed")),
                    "Skipped: " \o ToString(CountAction(evs, "skipped_spam")
                                    + CountAction(evs, "skipped_auto")),
                    "Errors: " \o ToString(CountAction(evs, "error"))>>
    IN  IF evs = <<>> THEN Raise("ValueError")
        ELSE Return(
            [html |-> Text(<<"\n", " ", "<html>", "<h1>Email Agent Report</h1>",
                            period, "Generated: " \o ToString(now)>>
                           \o stats \o <<"<table>">> \o Rows(evs)
                           \o <<"</table>", "</html>", "\n", " ">>),
             text |-> Text(<<"\n", "EMAIL AGENT REPORT", period,
                            "Generated: " \o ToString(now), "STATISTICS">>
                           \o stats \o <<"EMAIL DETAILS">> \o Rows(evs))])

\* A _generate_report without the `if not events` branch: min() of no
\* timestamps raises.
Report_no_empty_branch(evs, now) == ActivityReport(evs, now)

\* reporter.py: _generate_report after the lock block: the pair (html, text)
\* made of the copied events at time now. With no events it is the stripped
\* "no activity" pair.
Report(evs, now) ==
    IF evs = <<>>
    THEN Return(
        [html |-> Text(Strip(<<"\n", " ", "<html>",
                               "<h1>Email Agent Report</h1>",
                               "Period: Last 15 minutes",
                               "Generated: " \o ToString(now),
                               "<h2>No Email Activity</h2>",
                               "</html>", "\n", " ">>)),
         text |-> Text(Strip(<<"\n", "EMAIL AGENT REPORT",
                               "Period: Last 15 minutes",
                               "Generated: " \o ToString(now),
                               "No Email Activity", "\n">>))])
    ELSE ActivityReport(evs, now)

\* What a way of handing the message to the SMTP server may do.
SmtpOutcomes == {"ok", "SMTPAuthenticationError", "OSError"}

\* reporter.py: _send_report_email. stored: AuthManager has credentials for
\* the sender; first: what connect_smtp and send_message do; second: what the
\* direct connection does when the first way raised. Every exception is
\* printed inside the function, which returns None in each case.
_send_report_email(stored, first, second) ==
    IF ~stored
    THEN [delivered |-> FALSE, raised |-> "", printed |-> "ValueError"]
    ELSE IF first = "ok"
    THEN [delivered |-> TRUE, raised |-> "", printed |-> ""]
    ELSE IF second = "ok"
    THEN [delivered |-> TRUE, raised |-> "", printed |-> ""]
    ELSE [delivered |-> FALSE, raised |-> "", printed |-> second]

\* The ways a call of _send_report_email can go: without stored credentials
\* no connection is tried, and the direct connection is tried only when the
\* first way raised.
SendingCases ==
    {c \in [stored : BOOLEAN, first : SmtpOutcomes, second : SmtpOutcomes] :
        /\ ~c.stored => c.first = "ok"
        /\ c.first = "ok" => c.second = "ok"}

\* reporter.py: test_reporter: a temporary EmailReporter gets one test event
\* and its report is generated and sent.
test_reporter(now, stored, first, second) ==
    LET report  == Report(<<[uid |-> 0, action |-> "processed"]>>, now)
        sending == _send_report_email(stored, first, second)
    IN  IF report.raised # ""
        THEN [returned |-> FALSE, delivered |-> FALSE]
        ELSE IF Truthy(report.value.html) /\ Truthy(report.value.text)
        THEN IF sending.raised # ""
             THEN [returned |-> FALSE, delivered |-> FALSE]
             ELSE [returned |-> TRUE, delivered |-> sending.delivered]
        ELSE [returned |-> FALSE, delivered |-> FALSE]

NoTest == [called |-> FALSE, returned |-> FALSE, delivered |-> FALSE,
           exit_status |-> -1]

\* The reporter's threads do not run.
WorkerIdle ==
    /\ reporter_running = FALSE
    /\ lock = "none"
    /\ mpc = "idle"
    /\ wpc = "none"
    /\ copied = <<>>
    /\ added = 0
    /\ interval = 0
    /\ flushes = <<>>
    /\ test_result = NoTest

\* What the threads of the reporter leave alone.
ReporterFrame ==
    UNCHANGED <<serverVars, listenerVars, historyVars, pipelineVars>>

\* reporter.py: init_reporter: the global reporter is made and
\* start_reporting starts the worker thread.
init_reporter ==
    /\ ~reporter
    /\ wpc = "none"
    /\ ~test_result.called
    /\ reporter' = TRUE
    /\ reporter_running' = TRUE
    /\ wpc' = "sleep"
    /\ ReporterFrame
    /\ UNCHANGED <<events, lock, mpc, copied, added, interval, flushes,
                   test_result>>

\* reporter.py: log_email_event and add_event up to the lock: the main thread
\* has an event to log, the global reporter is set, the lock is taken.
add_event_acquire ==
    /\ reporter
    /\ mpc = "idle"
    /\ added < MaxEvents
    /\ Acquire("main")
    /\ mpc' = "append"
    /\ ReporterFrame
    /\ UNCHANGED <<reporter, events, reporter_running, wpc, copied, added,
                   interval, flushes, test_result>>

\* reporter.py: add_event inside the lock: self.events.append(event), and the
\* lock is released.
add_event_append ==
    /\ mpc = "append"
    /\ \E action \in EventActions :
          events' = Append(events, [uid |-> added + 1, action |-> action])
    /\ added' = added + 1
    /\ lock' = "none"
    /\ mpc' = "idle"
    /\ ReporterFrame
    /\ UNCHANGED <<reporter, reporter_running, wpc, copied, interval,
                   flushes, test_result>>

\* reporter.py: _report_worker: time.sleep(900) returns and self.running is
\* still set.
WorkerWake ==
    /\ wpc = "sleep"
    /\ reporter_running
    /\ interval < MaxIntervals
    /\ interval' = interval + 1
    /\ wpc' = "acquire"
    /\ ReporterFrame
    /\ UNCHANGED <<reporterVars, reporter_running, lock, mpc, copied, added,
                   flushes, test_result>>

\* reporter.py: _report_worker: self.running is found false, before or after
\* the sleep: the thread ends.
WorkerExit ==
    /\ wpc = "sleep"
    /\ ~reporter_running
    /\ wpc' = "exited"
    /\ ReporterFrame
    /\ UNCHANGED <<reporterVars, reporter_running, lock, mpc, copied, added,
                   interval, flushes, test_result>>

\* reporter.py: _generate_report: `with self.lock:`
WorkerAcquire ==
    /\ wpc = "acquire"
    /\ Acquire("worker")
    /\ wpc' = "copy"
    /\ ReporterFrame
    /\ UNCHANGED <<reporterVars, reporter_running, mpc, copied, added,
                   interval, flushes, test_result>>

\* reporter.py: _generate_report: events = self.events.copy()
WorkerCopy ==
    /\ wpc = "copy"
    /\ copied' = events
    /\ flushes' = Append(flushes, [events |-> events, added |-> added,
                                   interval |-> interval, report |-> None,
                                   delivery |-> "pending"])
    /\ wpc' = "clear"
    /\ ReporterFrame
    /\ UNCHANGED <<reporterVars, reporter_running, lock, mpc, added,
                   interval, test_result>>

\* reporter.py: _generate_report: self.events.clear(), and the lock is
\* released.
WorkerClear ==
    /\ wpc = "clear"
    /\ events' = <<>>
    /\ lock' = "none"
    /\ wpc' = "render"
    /\ ReporterFrame
    /\ UNCHANGED <<reporter, reporter_running, mpc, copied, added, interval,
                   flushes, test_result>>

\* reporter.py: the rest of _generate_report and, in _report_worker, the test
\* of the pair it returned: an exception is printed, an empty text skips the
\* sending.
WorkerRender ==
    /\ wpc = "render"
    /\ LET report == Report(copied, interval)
           n == Len(flushes)
       IN  IF report.raised # ""
           THEN /\ flushes' = [flushes EXCEPT ![n].delivery = "raised"]
                /\ wpc' = "sleep"
           ELSE IF Truthy(report.value.html) /\ Truthy(report.value.text)
           THEN /\ flushes' = [flushes EXCEPT ![n].report = report.value]
                /\ wpc' = "send"
           ELSE /\ flushes' = [flushes EXCEPT ![n].report = report.value,
                                              ![n].delivery = "skipped"]
                /\ wpc' = "sleep"
    /\ ReporterFrame
    /\ UNCHANGED <<reporterVars, reporter_running, lock, mpc, copied, added,
                   interval, test_result>>

\* A worker that puts the events back into the buffer when the sending
\* failed.
WorkerSend_requeue ==
    /\ wpc = "send"
    /\ \E c \in SendingCases :
          LET sending == _send_report_email(c.stored, c.first, c.second)
          IN  /\ flushes' = [flushes EXCEPT ![Len(flushes)].delivery =
                                IF sending.delivered THEN "sent" ELSE "failed"]
              /\ events' = IF sending.delivered THEN events
                           ELSE copied \o events
    /\ wpc' = "sleep"
    /\ ReporterFrame
    /\ UNCHANGED <<reporter, reporter_running, lock, mpc, copied, added,
                   interval, test_result>>

\* reporter.py: _report_worker: self._send_report_email(html_report,
\* text_report), after which the loop goes back to its sleep.
WorkerSend ==
    /\ wpc = "send"
    /\ \E c \in SendingCases :
          LET sending == _send_report_email(c.stored, c.first, c.second)
          IN  flushes' = [flushes EXCEPT ![Len(flushes)].delivery =
                             IF sending.raised # "" THEN "raised"
                             ELSE IF sending.delivered THEN "sent"
                             ELSE "failed"]
    /\ wpc' = "sleep"
    /\ ReporterFrame
    /\ UNCHANGED <<reporterVars, reporter_running, lock, mpc, copied, added,
                   interval, test_result>>

\* reporter.py: stop_reporter: stop_reporting clears self.running and joins
\* the worker for at most 5 s, and the global reporter is dropped.
stop_reporter ==
    /\ reporter
    /\ mpc = "idle"
    /\ reporter_running' = FALSE
    /\ reporter' = FALSE
    /\ ReporterFrame
    /\ UNCHANGED <<events, lock, mpc, wpc, copied, added, interval, flushes,
                   test_result>>

\* src/test_reporter.py: main, called with the two addresses: the exit
\* status follows what test_reporter returned. The script is a process of
\* its own, in which no watcher runs.
TestReporterScript ==
    /\ ~test_result.called
    /\ ~reporter
    /\ wpc = "none"
    /\ \E c \in SendingCases :
          LET success == test_reporter(interval, c.stored, c.first, c.second)
          IN  test_result' = [called |-> TRUE,
                              returned |-> success.returned,
                              delivered |-> success.delivered,
                              exit_status |-> IF success.returned THEN 0
                                              ELSE 1]
    /\ ReporterFrame
    /\ UNCHANGED <<reporterVars, reporter_running, lock, mpc, wpc, copied,
                   added, interval, flushes>>

\* ---------------------------------------------------------- specification

\* No message is in the stages: the state of the pipeline while the watcher
\* is looked at on its own.
PipelineIdle ==
    /\ caller = "none"
    /\ ppc = "idle"
    /\ mail = 0
    /\ contents = NoContents
    /\ routing_decision = None
    /\ expert_decision = None
    /\ review_decision = None
    /\ outcome = Running


Next ==
    \/ Arrive
    \/ start
    \/ Noop
    \/ Search
    \/ ForUid
    \/ Fetch
    \/ IntakeFilter
    \/ Classify
    \/ Route
    \/ Expert
    \/ Review
    \/ Deliver
    \/ signal_handler
    \/ start_finally

Init ==
    /\ WatcherInit
    /\ PipelineIdle
    /\ WorkerIdle

Spec == Init /\ [][Next]_allVars

\* One message goes through the stages behind the Intake Filter, in the
\* watcher or in the one-shot run; or the stages are called on their own:
\* SchedulingAgent.draft_response with the arguments it declares and then
\* review_draft on its draft, or analyze_and_draft. The watcher itself stays
\* as it was constructed.
PipelineInit ==
    /\ WatcherInit
    /\ WorkerIdle
    /\ mailbox = {}
    /\ ~rfcStar
    /\ ~enable_reporting
    /\ mail \in 1..Len(Messages)
    /\ contents = NoContents
    /\ routing_decision = None
    /\ expert_decision = None
    /\ review_decision = None
    /\ outcome = Running
    /\ \/ caller \in Callers /\ ppc = "classify"
       \/ caller = "direct" /\ ppc \in {"scheduling", "analyze"}

PipelineNext ==
    \/ PipelineClassify
    \/ PipelineRoute
    \/ PipelineScheduling
    \/ PipelineBusiness
    \/ PipelineInformation
    \/ PipelineGeneral
    \/ PipelineReview
    \/ PipelineSend
    \/ DirectAnalyze

Pipeline == PipelineInit /\ [][PipelineNext]_allVars

\* The steps of the main thread, which runs whenever it has a step to take.
\* The arrival of a message and a stop signal come from outside.
MainThread ==
    \/ start
    \/ Noop
    \/ Search
    \/ ForUid
    \/ Fetch
    \/ IntakeFilter
    \/ Classify
    \/ Route
    \/ Expert
    \/ Review
    \/ Deliver
    \/ start_finally

\* The watcher started on an empty mailbox without the reporter.
FairInit ==
    /\ Init
    /\ mailbox = {}
    /\ ~enable_reporting

FairSpec == FairInit /\ [][Next]_allVars /\ WF_allVars(MainThread)

\* The reporter on its own: a watcher constructed with reporting switched on
\* starts the reporter; the main thread logs events, the report worker
\* flushes them, and the test script is run.
ReporterInit ==
    /\ WatcherInit
    /\ mailbox = {}
    /\ ~rfcStar
    /\ enable_reporting
    /\ PipelineIdle
    /\ WorkerIdle

ReporterNext ==
    \/ init_reporter
    \/ add_event_acquire
    \/ add_event_append
    \/ WorkerWake
    \/ WorkerExit
    \/ WorkerAcquire
    \/ WorkerCopy
    \/ WorkerClear
    \/ WorkerRender
    \/ WorkerSend
    \/ stop_reporter
    \/ TestReporterScript

Reporter == ReporterInit /\ [][ReporterNext]_allVars

\* ------------------------------------------------------------------ claims

\* C1: within one watcher lifetime _process_email_by_uid runs at most once
\* for any UID, whatever the polls, the search results and the reconnects
\* are, so at most one reply is sent per UID.
C1_ProcessedAtMostOnce ==
    \A u \in Uids : runs[u] <= 1 /\ sent[u] <= 1

\* C1 witness: after a reconnect a search has returned a UID that was already
\* handled (and answered); the loop is about to skip it.
C1_Witness ==
    /\ reconnects >= 1
    /\ pc = "for"
    /\ email_uids # <<>>
    /\ Head(email_uids) \in processed_uids
    /\ runs[Head(email_uids)] = 1
    /\ sent[Head(email_uids)] = 1

\* C2 (as claimed): no UID less than or equal to the watermark recorded by
\* start() is ever processed.
C2_NeverAtOrBelowStartWatermark ==
    \A u \in Uids : runs[u] > 0 => u > startW

\* C3: when a stage of the pipeline raises for one UID, the poll loop keeps
\* running and goes on with the next UID of the same search result.
C3_ExceptionKeepsLoopRunning ==
    [][ (cur.verdict = "none" /\ cur'.verdict = "exception")
        => /\ pc' = "for"
           /\ email_uids' = Tail(email_uids)
           /\ running'
           /\ processed_uids' = processed_uids ]_vars

\* C3 witness: the pipeline raised for one UID and the loop stands at the next
\* UID of the same search result, which is not processed yet.
C3_Witness ==
    /\ cur.verdict = "exception"
    /\ cur.stages # {}
    /\ pc = "for"
    /\ running
    /\ email_uids # <<>>
    /\ Head(email_uids) \notin processed_uids

\* The event the Event Collector is to get for a terminal outcome.
TerminalEvent(verdict) ==
    CASE verdict = "sent" -> "processed"
      [] verdict = "skipped_spam" -> "skipped_spam"
      [] verdict = "skipped_auto" -> "skipped_auto"
      [] OTHER -> "error"

\* C4 (as claimed): with reporting enabled, a UID whose processing has ended
\* has had exactly one terminal event handed to log_email_event, the one of
\* its outcome.
C4_ExactlyOneTerminalEvent ==
    (enable_reporting /\ cur.verdict # "none")
        => cur.logged = <<TerminalEvent(cur.verdict)>>

\* C5: a reconnect of the poll loop, successful or not, leaves the set of
\* processed UIDs and the watermark max_uid unchanged.
C5_ReconnectKeepsWatermarkState ==
    [][ reconnects' # reconnects
        => (processed_uids' = processed_uids /\ max_uid' = max_uid) ]_vars

\* C5 witness: a reconnect attempt has just failed in a watcher that had
\* processed UIDs and advanced its watermark.
C5_Witness ==
    /\ last = "reconnect"
    /\ conn = "down"
    /\ processed_uids # {}
    /\ max_uid > startW

\* C6 (as claimed): after a transport error of a poll, of either kind, no
\* search is issued before a reconnect has been attempted.
C6_ReconnectBeforeNextSearch ==
    pc = "search" => ~needReconnect

\* C7 (as claimed): when a started watcher has exited, the IMAP close and
\* stop_reporter have each been attempted exactly once.
C7_StopExactlyOnce ==
    pc = "exited" => (closeAttempts = 1 /\ stopReporterCalls = 1)

\* The messages of Mails whose sender matches the allow-list.
WhitelistedMails ==
    {m \in MailIds :
        ContainsAny(Lower(Mails[m].from_address), WHITELIST)}

\* C8 (as claimed): a message whose sender matches WHITELIST is rejected by
\* neither stage of the Intake Filter.
C8_WhitelistedNeverRejected ==
    cur.mail \in WhitelistedMails
        => cur.verdict \notin {"skipped_spam", "skipped_auto"}

\* The sender has a no-reply marker and is not on the allow-list.
NoReplySender(email) ==
    /\ ContainsAny(Lower(email.from_address), NoReplyMarkers)
    /\ ~ContainsAny(Lower(email.from_address), WHITELIST)

\* The messages of Mails with such a sender.
NoReplyMails == {m \in MailIds : NoReplySender(Mails[m])}

\* C9: a message whose sender address contains a no-reply marker and does not
\* match the allow-list is rejected by is_auto_or_spam, whatever its subject:
\* once Stage 1 has run, the message is skipped as spam and no other stage
\* has run.
C9_NoReplyRejected ==
    (cur.mail \in NoReplyMails /\ "filter" \in cur.stages)
        => (cur.verdict = "skipped_spam" /\ cur.stages = {"filter"})

\* C9 witness: the message from "No-Reply@Shop.com" went through Stage 1 and
\* was skipped.
C9_Witness ==
    /\ cur.mail = 2
    /\ 2 \in NoReplyMails
    /\ "filter" \in cur.stages
    /\ cur.verdict = "skipped_spam"

\* The messages of Mails that the marketing-domain rule decides.
MarketingDomainMails ==
    {m \in MailIds : FilterRule(Mails[m]) = "marketing_domain"}

\* C10: for a message rejected by the Intake Filter exactly one event is
\* logged, a skipped one; with the reporter on it is the only event of that
\* UID in the buffer; Router, Expert, Reviewer and Delivery are not invoked
\* and no reply is sent. "Re: invoice overdue" from billing@mailchimp.com is
\* rejected by the marketing-domain rule.
C10_RejectedOnlySkipped ==
    /\ cur.verdict \in {"skipped_spam", "skipped_auto"}
          => /\ cur.logged = <<cur.verdict>>
             /\ cur.stages \cap Downstream = {}
             /\ sent[cur.uid] = 0
             /\ reporter =>
                   SelectSeq(events, LAMBDA e : e.uid = cur.uid)
                       = <<[uid |-> cur.uid, action |-> cur.verdict]>>
    /\ (cur.mail = 3 /\ "filter" \in cur.stages)
          => /\ 3 \in MarketingDomainMails
             /\ cur.verdict = "skipped_spam"

\* C10 witness: "Re: invoice overdue" from billing@mailchimp.com was rejected
\* with the reporter on, and its skipped event is in the buffer.
C10_Witness ==
    /\ cur.mail = 3
    /\ cur.verdict = "skipped_spam"
    /\ reporter
    /\ Len(events) >= 1
    /\ events[Len(events)] = [uid |-> cur.uid, action |-> "skipped_spam"]

\* Of Labels, the texts that are AUTOMATED once trimmed and upper-cased, and
\* those that are HUMAN.
C11_AutomatedLabels == { <<"A","U","T","O","M","A","T","E","D">>,
                         <<" ","a","u","t","o","m","a","t","e","d","\n">> }

C11_HumanLabels == { <<"H","U","M","A","N">>, <<"h","u","m","a","n"," ">> }

\* C11: classify_email_with_llm fails open: for every label text the
\* completion call returns, AUTOMATED (after trimming and upper-casing)
\* rejects the message, so that it is skipped and no later stage runs, HUMAN
\* accepts it, and any other text accepts it too.
C11_ClassifierFailsOpen ==
    /\ C11_AutomatedLabels \cup C11_HumanLabels \subseteq Labels
    /\ contents.classifier # <<>> =>
          IF contents.classifier[1] \in C11_AutomatedLabels
          THEN /\ outcome.kind = "skipped_auto"
               /\ ppc = "done"
               /\ contents.router = 0
          ELSE /\ outcome.kind # "skipped_auto"
               /\ ppc = "route" \/ contents.router # 0
                     \/ outcome.kind \in {"caught", "raised"}

\* C11 witness: the label "AUTOMATED." is neither of the two, and the message
\* went on to the Router.
C11_Witness ==
    /\ contents.classifier =
          << <<"A","U","T","O","M","A","T","E","D",".">> >>
    /\ ppc = "route"
    /\ outcome.kind = ""

\* Of RouterContents, the texts that are not valid JSON: those with no JSON
\* object in them and those whose braces enclose what json.loads rejects.
C12_NotValidJson ==
    {i \in 1..Len(RouterContents) :
        /\ RouterContents[i].t = "str"
        /\ \/ re_search(RouterContents[i].toks) = <<>>
           \/ json_loads(re_search(RouterContents[i].toks)).raised # ""}

\* C12: given a completion response that is not valid JSON (a text with no
\* JSON object, or braces that enclose invalid JSON), the Router returns
\* category "general" with confidence exactly 0.5 and does not raise.
C12_RouterFallback ==
    /\ {5, 6, 8, 9, 10} \subseteq C12_NotValidJson
    /\ contents.router \in C12_NotValidJson =>
          /\ routing_decision # None
          /\ routing_decision.agent_type = Str("general")
          /\ routing_decision.confidence = Float(5)

\* C12 witness: the Router was given braces around text that is no JSON and
\* returned the general category with confidence 0.5.
C12_Witness ==
    /\ contents.router = 8
    /\ RouterContents[8] =
          Text(<<LBrace, Word("agent_type: business, confidence: 0.9"),
                 RBrace>>)
    /\ ppc = "expert"
    /\ routing_decision.agent_type = Str("general")
    /\ routing_decision.confidence = Float(5)

\* router.py 15: the categories a RoutingDecision is meant to hold
Categories == {Str("scheduling"), Str("business"), Str("information"),
               Str("general")}

\* C13: for every completion response in the tolerated failure modes (empty
\* or absent content, non-JSON, JSON missing required keys, keys holding null
\* or a value of an unexpected type, an unexpected category value)
\* classify_and_route returns a RoutingDecision without raising, and its
\* category is one of scheduling, business, information, general.
C13_RoutingAlwaysUsable ==
    contents.router # 0 =>
        /\ routing_decision # None
        /\ routing_decision.agent_type \in Categories

\* Of ExpertContents, the malformed ones: a text that is no JSON, the empty
\* text, an absent content, braces around what is no JSON, an object without
\* body_text or with a null one, and a meeting without a start time that can
\* be parsed.
C14_Malformed == 3..10

\* C14: each Expert variant, given a malformed completion response, returns
\* a DraftDecision whose reply body is non-empty and does not raise.
C14_ExpertBodyNonEmpty ==
    contents.expert \in C14_Malformed =>
        /\ expert_decision # None
        /\ expert_decision.reply_body_text.t = "str"
        /\ expert_decision.reply_body_text.toks # <<>>

\* C15: for a message the Router classifies as "scheduling", the pipeline
\* of the watcher and of the one-shot run calls the Scheduling expert with
\* the default time zone and meeting duration, receives its DraftDecision and
\* passes it on to the Reviewer: once the Expert stage is over, the run has
\* a draft, and the call did not end in a TypeError.
C15_SchedulingDraftReachesReviewer ==
    (/\ caller \in Callers
     /\ routing_decision # None
     /\ routing_decision.agent_type = Str("scheduling")
     /\ ppc # "expert")
        => /\ expert_decision # None
           /\ outcome.exception # "TypeError"

\* Of ReviewerContents, the ones the Reviewer is to recover from: a meeting
\* start that cannot be parsed, a text that is no JSON, the empty text and an
\* absent content.
C16_Unusable == 6..9

\* C16: review_draft, given a completion response that is empty, is not
\* valid JSON or carries a meeting start time that cannot be parsed, returns
\* a ReviewDecision built from the Expert's draft, and no error reaches the
\* caller.
C16_ReviewerRecovers ==
    contents.reviewer \in C16_Unusable =>
        /\ review_decision # None
        /\ review_decision.final_body_text = expert_decision.reply_body_text
        /\ review_decision.final_subject = expert_decision.reply_subject

\* C17: the meeting of a ReviewDecision is the one normalized from the
\* Reviewer's completion response (timestamp parsed, time zone defaulted,
\* title defaulted to the subject and attendees to the sender) and it is never
\* taken from the draft: a response without a meeting gives no final meeting
\* even when the Expert's draft had one. The final subject and body are the
\* draft's when the response omits them.
C17_ReviewerMeetingReplaces ==
    review_decision # None =>
        LET i == contents.reviewer
            final == review_decision.final_meeting
            sender == List(<<Str(Messages[mail].from_address)>>)
        IN  /\ i = 1 => final = None
            /\ i = 2 => final = MeetingDetails(
                             Str("Next steps"),
                             datetime("2030-03-02 09:30", "+00:00"),
                             PyInt(60), Str("Europe/Paris"), Str("Zoom"),
                             sender, None)
            /\ i = 3 => final = MeetingDetails(
                             Str(Messages[mail].subject),
                             datetime("2030-01-15 14:00", "UTC"),
                             PyInt(30), Str("Mars/Phobos"), None,
                             sender, None)
            /\ i \in {1, 3, 4, 5} =>
                  /\ review_decision.final_subject
                        = expert_decision.reply_subject
                  /\ review_decision.final_body_text
                        = expert_decision.reply_body_text
            /\ i = 2 =>
                  /\ review_decision.final_subject = Str("Re: next steps")
                  /\ review_decision.final_body_text
                        = Str("Let us talk on the second.")

\* C17 witness: the Expert's draft proposed a meeting, the Reviewer's response
\* carried none, and the ReviewDecision has no meeting and the draft's
\* subject.
C17_Witness ==
    /\ contents.reviewer = 1
    /\ review_decision # None
    /\ expert_decision.meeting # None
    /\ review_decision.final_meeting = None
    /\ review_decision.final_subject = expert_decision.reply_subject

\* The instants the original message names and the one the Expert's draft
\* proposes.
C18_KnownStarts ==
    Messages[mail].plain_text_times \cup
        (IF expert_decision.meeting = None THEN {}
         ELSE {expert_decision.meeting.start_datetime.at})

\* C18: the start time of ReviewDecision.final_meeting appears in the
\* original message or in the Expert's draft: review_draft never outputs a
\* start time whose only origin is the completion response.
C18_StartFromMessageOrDraft ==
    (/\ review_decision # None
     /\ review_decision.final_meeting # None
     /\ review_decision.final_meeting.start_datetime # None)
        => review_decision.final_meeting.start_datetime.at
               \in C18_KnownStarts

\* The text ends with the sentence d.
EndsWith(v, d) ==
    /\ v.t = "str"
    /\ Len(v.toks) > Len(d.toks)
    /\ SubSeq(v.toks, Len(v.toks) - Len(d.toks) + 1, Len(v.toks)) = d.toks

\* Of ValidatorContents, those that give a GroundingResult whose is_grounded
\* is false.
C19_NotGrounded ==
    {j \in 1..Len(ValidatorContents) :
        LET result ==
                validate_response_grounding(Return(ValidatorContents[j]))
        IN  result.raised = "" /\ ~Truthy(result.value.is_grounded)}

\* C19: in analyze_and_draft with grounding validation on, whenever the
\* GroundingResult says the draft is not grounded, whatever its lists
\* contain, a DraftDecision is returned with the disclaimer appended to the
\* text body and, where there is one, to the HTML body.
C19_NotGroundedAddsDisclaimer ==
    (contents.validator \in C19_NotGrounded /\ contents.analyst \in 1..3)
        => /\ outcome.kind = "returned"
           /\ EndsWith(expert_decision.reply_body_text, disclaimer)
           /\ expert_decision.reply_body_html # None
                 => EndsWith(expert_decision.reply_body_html, html_disclaimer)

\* C20: a failure of the Grounding Validator (its completion call raising,
\* or a response that is no JSON) is swallowed: analyze_and_draft returns the
\* draft and neither body carries the disclaimer.
C20_ValidatorFailureSwallowed ==
    (contents.validator \in {-1, 6, 7} /\ contents.analyst \in 1..3)
        => /\ outcome.kind = "returned"
           /\ ~EndsWith(expert_decision.reply_body_text, disclaimer)
           /\ ~EndsWith(expert_decision.reply_body_html, html_disclaimer)

\* C24: for each newly discovered UID the poll loop adds the UID to
\* processed_uids, advances max_uid to it, and only then runs the pipeline:
\* while the pipeline runs for a message, max_uid is at or above its UID.
C24_WatermarkCoversInFlight ==
    pc \in PipelinePcs => max_uid >= cur.uid

\* C25: a stop signal does not cancel the message in flight: when the loop
\* has been left, the message it worked on has its terminal outcome.
C25_InFlightRunsToOutcome ==
    (pc \in {"unwinding", "exited"} /\ cur.uid # 0) => cur.verdict # "none"

\* Verdicts of a message whose processing failed.
FailedVerdicts == {"fetch_failed", "exception"}

\* The run of _process_email_by_uid for u is over and no reply was sent.
Unanswered(u) ==
    /\ runs[u] >= 1
    /\ ~(cur.uid = u /\ cur.verdict = "none")
    /\ sent[u] = 0

\* C27: no retry of a message. A UID whose processing failed (fetch status
\* not OK, or an exception before the reply was sent) is unanswered from then
\* on: it is never attempted again and no reply is sent for it; and as long
\* as the loop runs it is in processed_uids and max_uid is at or above it.
C27_FailedNeverRetried ==
    /\ [][(cur.verdict = "none" /\ cur'.verdict \in FailedVerdicts)
             => \E u \in Uids : u = cur'.uid /\ Unanswered(u)']_vars
    /\ [][\A u \in Uids : Unanswered(u) => Unanswered(u)']_vars
    /\ [](\A u \in Uids :
             (Unanswered(u) /\ pc \in LoopPcs)
                => (u \in processed_uids /\ max_uid >= u /\ runs[u] = 1))

\* A message's fetch was cut by a connection drop, the session was set up
\* again, and a later search has been issued.
C27_Witness ==
    /\ cur.verdict = "exception"
    /\ cur.stages = {}
    /\ Unanswered(cur.uid)
    /\ reconnects >= 1
    /\ last = "search"

\* C28: max_uid never decreases, and when a search is issued every UID in
\* processed_uids is at or below max_uid.
C28_WatermarkMonotone ==
    /\ [][max_uid' >= max_uid]_vars
    /\ [](pc = "search" => \A u \in processed_uids : u <= max_uid)

\* A search is about to be issued after the watermark has advanced.
C28_Witness ==
    /\ pc = "search"
    /\ processed_uids # {}
    /\ max_uid > startW

\* The final decision asks for a meeting whose invite cannot be built.
C29_InviteFails ==
    /\ review_decision # None
    /\ Truthy(review_decision.final_needs_meeting)
    /\ Truthy(review_decision.final_meeting)
    /\ build_ics(review_decision.final_meeting).raised # ""

\* C29: when the final decision requests a meeting and build_ics raises,
\* Delivery sends the reply without the invite, in the watcher and in the
\* one-shot run: the run ends as sent, or with an error that comes from the
\* sending itself (the SMTP session, a body that is no text), never with
\* the error of build_ics.
C29_ReplySentWithoutInvite ==
    (ppc = "done" /\ caller \in Callers /\ C29_InviteFails)
       => \/ /\ outcome.kind = "sent"
             /\ outcome.reply.invite = None
             /\ outcome.reply.body_text = review_decision.final_body_text
          \/ /\ outcome.kind \in {"caught", "raised"}
             /\ outcome.exception \in
                   {"RuntimeError"} \cup
                   (IF review_decision.final_body_text.t # "str"
                    THEN {"KeyError"} ELSE {})

\* The one-shot run has sent a reply for a decision whose meeting has no
\* start time.
C29_Witness ==
    /\ ppc = "done"
    /\ caller = "run_once"
    /\ C29_InviteFails
    /\ review_decision.final_meeting.start_datetime = None
    /\ outcome.kind = "sent"
    /\ outcome.reply.invite = None

\* The pair is the "no activity" summary: both texts are non-empty, the HTML
\* is a whole document, and both say that there was no activity.
NoActivity(report) ==
    /\ report # None
    /\ Truthy(report.html)
    /\ Truthy(report.text)
    /\ Head(report.html.toks) = "<html>"
    /\ report.html.toks[Len(report.html.toks)] = "</html>"
    /\ \E k \in 1..Len(report.html.toks) :
          report.html.toks[k] = "<h2>No Email Activity</h2>"
    /\ \E k \in 1..Len(report.text.toks) :
          report.text.toks[k] = "No Email Activity"

\* C21: _generate_report with no accumulated events returns the non-empty
\* "no activity" pair and leaves the buffer empty; called again with no event
\* added in between it finds no events again, returns the same kind of pair,
\* and the buffer is still empty.
C21_EmptyFlushIdempotent ==
    \A i \in 1..Len(flushes) :
       LET f == flushes[i]
       IN  /\ (f.events = <<>> /\ (f.report # None \/ f.delivery # "pending"))
                 => NoActivity(f.report)
           /\ (f.events = <<>> /\ i = Len(flushes) /\ added = f.added)
                 => events = <<>>
           /\ (i > 1 /\ flushes[i - 1].events = <<>>
                     /\ flushes[i - 1].added = f.added)
                 => f.events = <<>>

\* Two flushes in a row found no events, with no event added in between.
C21_Witness ==
    /\ Len(flushes) >= 2
    /\ flushes[1].events = <<>>
    /\ flushes[2].events = <<>>
    /\ NoActivity(flushes[1].report)
    /\ NoActivity(flushes[2].report)
    /\ flushes[1].report # flushes[2].report
    /\ events = <<>>

\* Places of the event numbered id in a list of events.
Places(evs, id) == {k \in 1..Len(evs) : evs[k].uid = id}

\* The flushes whose event list has the event numbered id.
FlushesWith(id) ==
    {i \in 1..Len(flushes) : Places(flushes[i].events, id) # {}}

\* C22: the buffer is drained atomically. Under every interleaving of
\* add_event with the worker's flushes an added event is in the event list of
\* at most one flush, once; while it is in none it is still in the buffer
\* (not lost); and once it is in one it is in the buffer no more, as soon as
\* the worker has left the lock.
C22_DrainedAtomically ==
    \A id \in 1..added :
       /\ Cardinality(FlushesWith(id)) <= 1
       /\ \A i \in FlushesWith(id) :
             Cardinality(Places(flushes[i].events, id)) = 1
       /\ FlushesWith(id) = {} => Cardinality(Places(events, id)) = 1
       /\ (FlushesWith(id) # {} /\ lock # "worker")
             => Places(events, id) = {}

\* Events were added while flushes went on: two flushes have events, and a
\* third event waits in the buffer.
C22_Witness ==
    /\ added = 3
    /\ \E i, j \in 1..Len(flushes) :
          /\ i < j
          /\ flushes[i].events # <<>>
          /\ flushes[j].events # <<>>
    /\ Len(events) = 1

\* C23: test_reporter returns True, and the test script exits with status 0,
\* only when the test report was sent; when the sending fails it returns
\* False and the script exits with status 1.
C23_TrueOnlyWhenSent ==
    test_result.called
       => /\ test_result.returned <=> test_result.delivered
          /\ test_result.exit_status = (IF test_result.delivered THEN 0 ELSE 1)

\* C30: an event removed from the buffer by a flush is never put back. The
\* buffer is cleared before the summary is sent; when the sending fails the
\* events of that flush are in the buffer no more and in no other flush; and
\* after the one call of _send_report_email the worker goes back to its
\* sleep, so that every flush has an interval of its own.
C30_FlushedNeverPutBack ==
    /\ [](\A i \in 1..Len(flushes) :
             (wpc = "send" \/ flushes[i].delivery = "failed")
                => \A k \in 1..Len(flushes[i].events) :
                      LET id == flushes[i].events[k].uid
                      IN  /\ Places(events, id) = {}
                          /\ FlushesWith(id) = {i})
    /\ [](\A i, j \in 1..Len(flushes) :
             i < j => flushes[i].interval < flushes[j].interval)
    /\ [][(wpc = "send" /\ wpc' # "send") => wpc' = "sleep"]_allVars

\* The sending of a summary with events failed, and a later summary was
\* sent.
C30_Witness ==
    \E i, j \in 1..Len(flushes) :
       /\ i < j
       /\ flushes[i].events # <<>>
       /\ flushes[i].delivery = "failed"
       /\ flushes[j].delivery = "sent"

\* Steps in which a command of the poll or of the fetch raised a transport
\* error, a reconnect was attempted, or the server refused the search.
TransportErrorSteps ==
    {"reconnect", "unexpected_error", "fetch_raised", "search_not_ok"}

\* The message with UID u was run through the pipeline: the poll loop has
\* called _process_email_by_uid for it and the call has come to its outcome.
RanThrough(u) ==
    /\ runs[u] >= 1
    /\ ~(cur.uid = u /\ cur.verdict = "none")

\* C26: liveness. If the watcher is never stopped and transport errors
\* eventually cease (from some point on no command raises, every reconnect
\* has succeeded and searches are answered), every message that has arrived
\* after startup with a UID above the start watermark, and stays unseen, is
\* eventually returned by a poll and run through the pipeline.
C26_EventuallyRunThrough ==
    ([](pc \notin {"returned", "unwinding", "exited"})
        /\ <>[](last \notin TransportErrorSteps))
       => \A u \in Uids :
             [](((u \in unseen /\ u > startW /\ pc \in LoopPcs))
                   => <>RanThrough(u))

\* A message that arrived after startup was run through the pipeline after
\* the session had been set up again, with no error since.
C26_Witness ==
    \E u \in Uids :
       /\ u > startW
       /\ u \in unseen
       /\ cur.uid = u
       /\ "filter" \in cur.stages
       /\ RanThrough(u)
       /\ reconnects >= 1
       /\ pc \in LoopPcs
       /\ last \notin TransportErrorSteps

====
